---- MODULE Spec2Model ----
(***************************************************************************)
(* Security middleware pipeline of the FastAPI backend template.           *)
(*                                                                         *)
(* Part 1: SimpleRateLimitMiddleware (src/app/middleware/security.py), the *)
(*         in-memory sliding-window rate limiter.                          *)
(* Part 2: CircuitBreakerMiddleware (src/app/middleware/advanced.py).      *)
(* Part 3: AlertingMiddleware (src/app/middleware/monitoring.py) with the  *)
(*         AlertDispatcher (src/app/integrations/alerting.py).             *)
(* Part 4: DDoSProtectionMiddleware (src/app/middleware/advanced.py).      *)
(*                                                                         *)
(* time.time() is a float number of seconds.  The model reads the clock in *)
(* ticks of 1/TicksPerSec second, so that sub-second arrival times and the *)
(* truncation done by int() are visible.                                   *)
(***************************************************************************)
EXTENDS Integers, Sequences, FiniteSets, TLC

\* ------------------------------------------------------------------------
\* Bounds of the model
\* ------------------------------------------------------------------------
TicksPerSec == 2
MaxRequests == 3
MaxInflight == 2
MaxCBRequests == 4
MaxCBInflight == 2
MaxNow == 6
MaxALCalls == 3
MaxALSpan == 2
MaxDDRequests == 3
MaxDDInflight == 2
MaxDDSteps == 1
MaxDDCleanups == 1
MaxRDEvents == 3
MaxRDInflight == 2
MaxRDNow == 2

\* ------------------------------------------------------------------------
\* Program constants
\* ------------------------------------------------------------------------
MINUTE == 60
HOUR == 3600
_cleanup_interval == 300
RETRY_MINUTE == 60
alert_cooldown == 300
DEFAULT_THRESHOLD == 100
DD_WINDOW == 60
DD_CLEANUP_SLEEP == 300

MinuteTicks == MINUTE * TicksPerSec
HourTicks == HOUR * TicksPerSec
CooldownTicks == alert_cooldown * TicksPerSec
DDWindowTicks == DD_WINDOW * TicksPerSec
DDSleepTicks == DD_CLEANUP_SLEEP * TicksPerSec

\* default excluded_paths of SimpleRateLimitMiddleware.__init__
excluded_paths ==
    {"/health", "/health/ready", "/metrics", "/docs", "/openapi.json"}

VARIABLES
    now,              \* the clock, in ticks
    rpm, rph, burst,  \* configuration given to the constructor
    minute_windows,   \* client_id -> list of timestamps (defaultdict)
    hour_windows,     \* client_id -> list of timestamps (defaultdict)
    _last_cleanup,    \* time of the last bulk cleanup
    rlInflight,       \* requests awaiting call_next inside the rate limiter
    rlResp,           \* the last response that left the rate limiter
    nreq,             \* number of requests that entered the rate limiter
    admitted,         \* history: client_id -> timestamps of admitted requests
    lastDenial,       \* history: the last denial, until its client is admitted
                      \* again or the time it was told to retry at has passed
    failure_threshold, recovery_timeout,  \* circuit breaker configuration
    states,           \* endpoint -> "closed" | "open" | "half_open"
    failure_counts,   \* endpoint -> int
    last_failure_times, \* endpoint -> time of its last recorded failure (dict)
    cbInflight,       \* <<endpoint, tag>> -> requests awaiting call_next
    cbResp,           \* the last response that left the circuit breaker
    cbReq,            \* number of requests that entered the circuit breaker
    cbLast,           \* history: endpoint of the last request that entered
    consec,           \* history: endpoint -> consecutive failures observed
    sinceProbe,       \* history: endpoint -> requests passed to the handler
                      \* since a probe was granted and not yet recorded
    thresholds,       \* AlertingMiddleware: event type -> threshold (dict)
    teams_webhook_url, email_config,  \* AlertDispatcher: is the sink configured
    counters,         \* event type -> int (defaultdict)
    last_alert,       \* event type -> time of its last alert (dict)
    executor,         \* sink -> calls handed to the thread pool, not yet run
    alResp,           \* what the last AlertingMiddleware.dispatch gave back
    alCall,           \* history: the _check_alert call made by the last step
    last_sent,        \* history: event type -> time of its last dispatch call
    sinceAlert,       \* history: event type -> events counted since the last
                      \* alert that reached a sink
    nal,              \* number of _check_alert calls and of requests
    syn_threshold, rate_threshold, ip_threshold,  \* DDoS configuration
    connection_counts,  \* client ip -> int (defaultdict)
    request_counts,   \* client ip -> list of timestamps (defaultdict)
    unique_ips,       \* set of client ips
    blocked_ips,      \* set of client ips
    ddWake,           \* time at which the sleep of _cleanup_loop ends
    ddInflight,       \* client ip -> requests awaiting call_next
    ddResp,           \* the last response that left the DDoS middleware
    ddReq,            \* number of requests that entered the DDoS middleware
    ddLast,           \* history: client ip of the last request that entered
    ddSeen,           \* history: client ip -> arrival times of its requests
    size_limits,      \* ContentValidationMiddleware: the table of limits, in
                      \* the order of the dict's entries
    allowed_types,    \* method -> set of content types (dict)
    block_null_bytes, \* bool
    cvReq,            \* the last request that entered the content validator
    cvResp,           \* what the content validator answered to it
    trusted_proxies,  \* ProxyHeadersMiddleware: set of peer addresses
    phReq,            \* the last request that entered the proxy middleware
    phScope,          \* the scope with which it was passed to call_next
    phPrev,           \* history: the request before it and its scope
    default_limit,    \* RedisRateLimitMiddleware configuration
    window,           \* window_seconds, in ticks
    zsets,            \* the store: key -> the members of its sorted set, each
                      \* one its own score
    expires,          \* the store: key -> the time at which the key expires
    server_scripts,   \* the store: is the script in the script cache
    _script_sha,      \* process -> does the instance hold the script's sha
    rdInflight,       \* request number -> its position inside dispatch
    rdResp,           \* the last response that left the middleware
    rdEvents,         \* number of requests that entered the middleware, of
                      \* store failures and of script cache flushes
    rdAdmitted,       \* history: key -> timestamp -> number of requests with
                      \* this timestamp that the script allowed
    auth_required_paths, public_paths,  \* JWTAuthenticationMiddleware: lists
    JWT_AVAILABLE,    \* could the jwt module be imported
    jwReq,            \* the last request that entered the JWT middleware
    jwResp,           \* what the JWT middleware answered to it
    settings,         \* the settings read by register_middlewares
    user_middleware,  \* app.user_middleware, the outermost middleware first
    ppReq,            \* the last request that entered the application
    ppResp            \* the response that left it

rlVars == <<rpm, rph, burst, minute_windows, hour_windows, _last_cleanup,
            rlInflight, rlResp, nreq, admitted, lastDenial>>

cbVars == <<failure_threshold, recovery_timeout, states, failure_counts,
            last_failure_times, cbInflight, cbResp, cbReq, cbLast, consec,
            sinceProbe>>

alVars == <<thresholds, teams_webhook_url, email_config, counters, last_alert,
            executor, alResp, alCall, last_sent, sinceAlert, nal>>

ddVars == <<syn_threshold, rate_threshold, ip_threshold, connection_counts,
            request_counts, unique_ips, blocked_ips, ddWake, ddInflight,
            ddResp, ddReq, ddLast, ddSeen>>

cvVars == <<size_limits, allowed_types, block_null_bytes, cvReq, cvResp>>

\* the state of the stateless validators and of the components that follow
phVars == <<trusted_proxies, phReq, phScope, phPrev>>

rdVars == <<default_limit, window, zsets, expires, server_scripts,
            _script_sha, rdInflight, rdResp, rdEvents, rdAdmitted>>

jwVars == <<auth_required_paths, public_paths, JWT_AVAILABLE, jwReq, jwResp>>

ppVars == <<settings, user_middleware, ppReq, ppResp>>

tailVars == <<cvVars, phVars, rdVars, jwVars, ppVars>>

\* the state of the components added after the rate limiter and the circuit
\* breaker
restVars == <<alVars, ddVars, tailVars>>

vars == <<now, rlVars, cbVars, restVars>>

\* ------------------------------------------------------------------------
\* Helpers
\* ------------------------------------------------------------------------
Max(a, b) == IF a >= b THEN a ELSE b

\* min() of a non-empty list
RECURSIVE MinOf(_)
MinOf(s) ==
    IF Len(s) = 1 THEN s[1]
    ELSE LET m == MinOf(Tail(s)) IN IF s[1] <= m THEN s[1] ELSE m

\* d[k] on a defaultdict(list), read only
Get(d, k) == IF k \in DOMAIN d THEN d[k] ELSE <<>>

\* d[k] = v
Put(d, k, v) == [x \in DOMAIN d \cup {k} |-> IF x = k THEN v ELSE d[x]]

\* [t for t in timestamps if t > cutoff]
Prune(timestamps, cutoff) == SelectSeq(timestamps, LAMBDA t : t > cutoff)

\* number of entries of a list lying in the interval (t - width, t]
CountIn(s, t, width) ==
    Cardinality({i \in 1..Len(s) : s[i] > t - width /\ s[i] <= t})

\* ------------------------------------------------------------------------
\* Requests seen by the rate limiter
\* ------------------------------------------------------------------------
Paths == {"/api/test", "/health"}

Req(peer, xff, real_ip, user_id, path) ==
    [peer |-> peer, xff |-> xff, real_ip |-> real_ip, user_id |-> user_id,
     path |-> path]

\* peer = "" : request.client is None; xff = <<>> : no X-Forwarded-For;
\* real_ip = "" : no X-Real-IP; user_id = "" : request.state has no user_id.
\* xff is the header value split at ",", each element stripped.
RLRequests ==
    { Req(p, <<>>, "", "", path) : p \in {"10.0.0.1", "10.0.0.2"}, path \in Paths }
    \cup { Req("10.0.0.2", <<"10.0.0.1", "10.0.0.9">>, "", "", "/api/test"),
           Req("", <<>>, "10.0.0.2", "", "/api/test") }

\* SimpleRateLimitMiddleware._get_client_identifier: <<ip, "">> stands for
\* the string ip and <<ip, user>> for the string "ip:user".
_get_client_identifier(request) ==
    LET ip0 == IF request.peer # "" THEN request.peer ELSE "unknown"
        ip  == IF request.xff # <<>> THEN request.xff[1]
               ELSE IF request.real_ip # "" THEN request.real_ip
               ELSE ip0
    IN  <<ip, request.user_id>>

ClientIds == { _get_client_identifier(r) : r \in RLRequests }

\* time between two arrivals, in ticks: the same instant, one tick less than
\* a minute, and what is then left of an hour (two steps of the second make
\* more than a minute, one of the third less than an hour, the second and
\* the third together exactly an hour)
Deltas == {0, MinuteTicks - 1, HourTicks - MinuteTicks + 1}

\* configurations given to the constructor: the hour limit above, equal to
\* and below the minute limit, with and without burst
RLConfigs ==
    { [rpm |-> 2, burst |-> 0, rph |-> 3],
      [rpm |-> 1, burst |-> 1, rph |-> 2],
      [rpm |-> 1, burst |-> 0, rph |-> 1] }

\* what the downstream handler does: a response, or a raised exception
Outcome(kind, status) == [kind |-> kind, status |-> status]
HandlerOutcomes == {Outcome("response", 200), Outcome("raise", 0)}

NoResp == [kind |-> "none", status |-> 0, retry_after |-> 0,
           remaining |-> -1, client |-> <<"", "">>, k |-> 0, path |-> ""]

\* ------------------------------------------------------------------------
\* SimpleRateLimitMiddleware
\* ------------------------------------------------------------------------
\* variant: the default table lacks "/health"
IsExcluded_NoHealth(path) == path \in excluded_paths \ {"/health"}

\* dispatch: request.url.path in self.excluded_paths
IsExcluded(path) == path \in excluded_paths

\* variant: > in place of >=
MinuteExceeded_Strict(minute_count) == minute_count > rpm + burst

\* _check_rate_limit: minute_count >= self.rpm + self.burst
MinuteExceeded(minute_count) == minute_count >= rpm + burst

\* variant: the burst allowance added to the hour limit as well
HourExceeded_WithBurst(hour_count) == hour_count >= rph + burst

\* _check_rate_limit: hour_count >= self.rph
HourExceeded(hour_count) == hour_count >= rph

\* _check_rate_limit: int(oldest + 3600 - now), in seconds
HourRetryAfter(oldest, t) == (oldest + HourTicks - t) \div TicksPerSec

\* variant: the append to the hour window forgotten
AddCurrentRequest_MinuteOnly(mw, hw, client_id, t) ==
    [mw |-> Put(mw, client_id, Append(mw[client_id], t)), hw |-> hw]

\* _check_rate_limit: the two appends of the current request
AddCurrentRequest(mw, hw, client_id, t) ==
    [mw |-> Put(mw, client_id, Append(mw[client_id], t)),
     hw |-> Put(hw, client_id, Append(hw[client_id], t))]

\* variant: the current request appended before the limits are compared
_check_rate_limit_AppendFirst(mw, hw, client_id, t) ==
    LET mw1 == Put(mw, client_id, Prune(Get(mw, client_id), t - MinuteTicks))
        hw1 == Put(hw, client_id, Prune(Get(hw, client_id), t - HourTicks))
        a   == AddCurrentRequest(mw1, hw1, client_id, t)
    IN  IF MinuteExceeded(Len(mw1[client_id]))
        THEN [allowed |-> FALSE, retry_after |-> RETRY_MINUTE,
              mw |-> a.mw, hw |-> a.hw]
        ELSE IF HourExceeded(Len(hw1[client_id]))
        THEN [allowed |-> FALSE,
              retry_after |-> HourRetryAfter(MinOf(a.hw[client_id]), t),
              mw |-> a.mw, hw |-> a.hw]
        ELSE [allowed |-> TRUE, retry_after |-> 0, mw |-> a.mw, hw |-> a.hw]

\* _check_rate_limit(client_id, now) on windows mw, hw: the result and the
\* windows it leaves
_check_rate_limit(mw, hw, client_id, t) ==
    LET minute_cutoff == t - MinuteTicks
        hour_cutoff   == t - HourTicks
        mw1 == Put(mw, client_id, Prune(Get(mw, client_id), minute_cutoff))
        hw1 == Put(hw, client_id, Prune(Get(hw, client_id), hour_cutoff))
        minute_count == Len(mw1[client_id])
        hour_count   == Len(hw1[client_id])
    IN  IF MinuteExceeded(minute_count)
        THEN [allowed |-> FALSE, retry_after |-> RETRY_MINUTE,
              mw |-> mw1, hw |-> hw1]
        ELSE IF HourExceeded(hour_count)
        THEN [allowed |-> FALSE,
              retry_after |-> HourRetryAfter(MinOf(hw1[client_id]), t),
              mw |-> mw1, hw |-> hw1]
        ELSE LET a == AddCurrentRequest(mw1, hw1, client_id, t)
             IN  [allowed |-> TRUE, retry_after |-> 0, mw |-> a.mw, hw |-> a.hw]

\* variant: the keys left with an empty list are not deleted
CleanWindows_KeepEmpty(w, cutoff) ==
    [c \in DOMAIN w |-> Prune(w[c], cutoff)]

\* _cleanup_old_entries on one window map with its cutoff
CleanWindows(w, cutoff) ==
    LET pruned == [c \in DOMAIN w |-> Prune(w[c], cutoff)]
        keep   == {c \in DOMAIN w : pruned[c] # <<>>}
    IN  [c \in keep |-> pruned[c]]

\* dispatch: the periodic cleanup, run when the interval has elapsed
CleanupDue(t) == t - _last_cleanup > _cleanup_interval * TicksPerSec

NoDenial == [client |-> <<"", "">>, t |-> 0, retry_after |-> 0]

\* the time at which the client of the last denial was told to retry
RetryTime == lastDenial.t + lastDenial.retry_after * TicksPerSec

\* the last denial as remembered at time t
Remembered(t) ==
    IF lastDenial # NoDenial /\ t > RetryTime THEN NoDenial ELSE lastDenial

\* dispatch of a request on an excluded path: straight to call_next
\* (the client and the arrival time recorded with the request in flight are
\* history: the code does not compute them on this path)
RLDispatchExcluded(request, d) ==
    LET r == [limited |-> FALSE, client |-> _get_client_identifier(request),
              k |-> 0, path |-> request.path, t |-> now + d]
    IN  /\ nreq < MaxRequests
        /\ Cardinality(rlInflight) < MaxInflight
        /\ IsExcluded(request.path)
        /\ r \notin rlInflight
        /\ now' = now + d
        /\ nreq' = nreq + 1
        /\ rlInflight' = rlInflight \cup {r}
        /\ lastDenial' = Remembered(now + d)
        /\ UNCHANGED <<restVars, rpm, rph, burst, minute_windows, hour_windows,
                       _last_cleanup, rlResp, admitted, cbVars>>

\* dispatch of a request on a rate-limited path, up to the 429 or up to the
\* await of call_next
RLDispatchLimited(request, d) ==
    LET t == now + d
        client_id == _get_client_identifier(request)
        due == CleanupDue(t)
        mw0 == IF due THEN CleanWindows(minute_windows, t - MinuteTicks)
               ELSE minute_windows
        hw0 == IF due THEN CleanWindows(hour_windows, t - HourTicks)
               ELSE hour_windows
        k   == Len(admitted[client_id]) + 1
    IN  /\ nreq < MaxRequests
        /\ ~IsExcluded(request.path)
        /\ \E res \in {_check_rate_limit(mw0, hw0, client_id, t)} :
            /\ res.allowed => Cardinality(rlInflight) < MaxInflight
            /\ now' = t
            /\ nreq' = nreq + 1
            /\ _last_cleanup' = IF due THEN t ELSE _last_cleanup
            /\ minute_windows' = res.mw
            /\ hour_windows' = res.hw
            /\ IF res.allowed
               THEN /\ rlInflight' = rlInflight \cup
                          {[limited |-> TRUE, client |-> client_id, k |-> k,
                            path |-> request.path, t |-> t]}
                    /\ admitted' = [admitted EXCEPT ![client_id] = Append(@, t)]
                    /\ lastDenial' = IF lastDenial.client = client_id
                                     THEN NoDenial ELSE Remembered(t)
                    /\ UNCHANGED rlResp
               ELSE /\ rlResp' = [kind |-> "response", status |-> 429,
                                  retry_after |-> res.retry_after,
                                  remaining |-> -1, client |-> client_id,
                                  k |-> 0, path |-> request.path]
                    /\ lastDenial' = [client |-> client_id, t |-> t,
                                      retry_after |-> res.retry_after]
                    /\ UNCHANGED <<rlInflight, admitted>>
            /\ UNCHANGED <<rpm, rph, burst, cbVars, restVars>>

\* variant: the header computed as if the request were not yet recorded
MinuteRemaining_OffByOne(client_id) ==
    Max(0, rpm - Len(Get(minute_windows, client_id)) - 1)

\* dispatch: max(0, self.rpm - len(self.minute_windows[client_id]))
MinuteRemaining(client_id) ==
    Max(0, rpm - Len(Get(minute_windows, client_id)))

\* dispatch after call_next: the handler's response gets the rate-limit
\* headers (rate-limited paths only; reading minute_windows[client_id]
\* creates the key); an exception of the handler passes through
RLComplete(r, o) ==
    /\ r \in rlInflight
    /\ rlInflight' = rlInflight \ {r}
    /\ IF r.limited /\ o.kind = "response"
       THEN /\ minute_windows' = Put(minute_windows, r.client,
                                     Get(minute_windows, r.client))
            /\ rlResp' = [kind |-> "response", status |-> o.status,
                          retry_after |-> 0,
                          remaining |-> MinuteRemaining(r.client),
                          client |-> r.client, k |-> r.k, path |-> r.path]
       ELSE /\ rlResp' = [kind |-> o.kind, status |-> o.status,
                          retry_after |-> 0, remaining |-> -1,
                          client |-> r.client, k |-> r.k, path |-> r.path]
            /\ UNCHANGED minute_windows
    /\ UNCHANGED <<restVars, now, rpm, rph, burst, hour_windows, _last_cleanup,
                   nreq,
                   admitted, lastDenial, cbVars>>

\* the client of the last denial sends a request at the time it was told to
\* retry at
RLRetry(request) ==
    /\ lastDenial # NoDenial
    /\ _get_client_identifier(request) = lastDenial.client
    /\ RetryTime >= now
    /\ RLDispatchLimited(request, RetryTime - now)

RLInitWith(configs) ==
    /\ \E cfg \in configs :
          rpm = cfg.rpm /\ burst = cfg.burst /\ rph = cfg.rph
    /\ minute_windows = <<>>
    /\ hour_windows = <<>>
    /\ _last_cleanup = 0
    /\ rlInflight = {}
    /\ rlResp = NoResp
    /\ nreq = 0
    /\ admitted = [c \in ClientIds |-> <<>>]
    /\ lastDenial = NoDenial

RLNext ==
    \/ \E request \in RLRequests, d \in Deltas : RLDispatchExcluded(request, d)
    \/ \E request \in RLRequests, d \in Deltas : RLDispatchLimited(request, d)
    \/ \E r \in rlInflight, o \in HandlerOutcomes : RLComplete(r, o)
    \/ \E request \in RLRequests : RLRetry(request)

\* ------------------------------------------------------------------------
\* CircuitBreakerMiddleware
\* ------------------------------------------------------------------------
\* endpoint = f"{request.method}:{request.url.path}"
Endpoints == {"GET:/api/a", "POST:/api/b"}

\* configurations given to the constructor (recovery_timeout in seconds)
CBConfigs ==
    { [failure_threshold |-> 2, recovery_timeout |-> 1],
      [failure_threshold |-> 1, recovery_timeout |-> 2] }

\* how a request in flight got past the circuit check: with the circuit
\* closed, as the request that moved it from open to half_open, or with the
\* circuit already half_open
Tags == {"closed", "probe", "half_open"}

CBOutcomes == {Outcome("response", 200), Outcome("response", 500),
               Outcome("raise", 0)}

NoCBResp == [kind |-> "none", status |-> 0, retry_after |-> -1,
             endpoint |-> "", handler |-> FALSE]

\* variant: the time of the last failure left out of the comparison
_should_attempt_reset_NoLast(endpoint) ==
    now >= recovery_timeout * TicksPerSec

\* _should_attempt_reset: (time.time() - last_failure) >= recovery_timeout,
\* last_failure = self.last_failure_times.get(endpoint, 0)
_should_attempt_reset(endpoint) ==
    LET last_failure == IF endpoint \in DOMAIN last_failure_times
                        THEN last_failure_times[endpoint] ELSE 0
    IN  now - last_failure >= recovery_timeout * TicksPerSec

\* variant: > in place of >=
StatusIsFailure_Above500(status_code) == status_code > 500

\* dispatch: response.status_code >= 500
StatusIsFailure(status_code) == status_code >= 500

\* _record_success: the count and the state it leaves
_record_success(endpoint) ==
    [count |-> 0,
     state |-> IF states[endpoint] = "half_open" THEN "closed"
               ELSE states[endpoint]]

\* _record_failure: the count and the state it leaves
_record_failure(endpoint) ==
    LET count == failure_counts[endpoint] + 1
    IN  [count |-> count,
         state |-> IF count >= failure_threshold THEN "open"
                   ELSE states[endpoint]]

\* what the claims call a failure: a status >= 500 or an escaped exception
ObservedFailure(o) == o.kind = "raise" \/ o.status >= 500

\* dispatch with the circuit open and the recovery timeout not elapsed: 503
CBReject(endpoint) ==
    /\ cbReq < MaxCBRequests
    /\ states[endpoint] = "open"
    /\ ~_should_attempt_reset(endpoint)
    /\ cbReq' = cbReq + 1
    /\ cbLast' = endpoint
    /\ cbResp' = [kind |-> "response", status |-> 503,
                  retry_after |-> recovery_timeout, endpoint |-> endpoint,
                  handler |-> FALSE]
    /\ UNCHANGED <<now, rlVars, restVars, failure_threshold, recovery_timeout, states,
                   failure_counts, last_failure_times, cbInflight, consec,
                   sinceProbe>>

\* dispatch up to the await of call_next: the circuit is closed or
\* half_open, or it is open and moves to half_open
CBPass(endpoint) ==
    LET tag == IF states[endpoint] = "open" THEN "probe"
               ELSE IF states[endpoint] = "half_open" THEN "half_open"
               ELSE "closed"
        probing == tag = "probe" \/ cbInflight[<<endpoint, "probe">>] > 0
    IN  /\ cbReq < MaxCBRequests
        /\ cbInflight[<<endpoint, tag>>] < MaxCBInflight
        /\ states[endpoint] = "open" => _should_attempt_reset(endpoint)
        /\ cbReq' = cbReq + 1
        /\ cbLast' = endpoint
        /\ states' = IF states[endpoint] = "open"
                     THEN [states EXCEPT ![endpoint] = "half_open"]
                     ELSE states
        /\ cbInflight' = [cbInflight EXCEPT ![<<endpoint, tag>>] = @ + 1]
        /\ sinceProbe' = IF probing
                         THEN [sinceProbe EXCEPT ![endpoint] = @ + 1]
                         ELSE sinceProbe
        /\ UNCHANGED <<now, rlVars, restVars, failure_threshold, recovery_timeout,
                       failure_counts, last_failure_times, cbResp, consec>>

\* dispatch after call_next: the outcome is recorded and the response (or
\* the exception) goes back to the caller
CBComplete(endpoint, tag, o) ==
    LET failed == o.kind = "raise" \/ StatusIsFailure(o.status)
        rec == IF failed THEN _record_failure(endpoint)
               ELSE _record_success(endpoint)
    IN  /\ cbInflight[<<endpoint, tag>>] > 0
        /\ cbInflight' = [cbInflight EXCEPT ![<<endpoint, tag>>] = @ - 1]
        /\ failure_counts' = [failure_counts EXCEPT ![endpoint] = rec.count]
        /\ states' = [states EXCEPT ![endpoint] = rec.state]
        /\ last_failure_times' =
              IF failed
              THEN [e \in DOMAIN last_failure_times \cup {endpoint} |->
                      IF e = endpoint THEN now ELSE last_failure_times[e]]
              ELSE last_failure_times
        /\ cbResp' =
              IF o.kind = "response"
              THEN [kind |-> "response", status |-> o.status,
                    retry_after |-> -1, endpoint |-> endpoint, handler |-> TRUE]
              ELSE IF rec.state = "open"
              THEN [kind |-> "response", status |-> 503, retry_after |-> -1,
                    endpoint |-> endpoint, handler |-> TRUE]
              ELSE [kind |-> "raise", status |-> 0, retry_after |-> -1,
                    endpoint |-> endpoint, handler |-> TRUE]
        /\ consec' = [consec EXCEPT
                         ![endpoint] = IF ObservedFailure(o) THEN @ + 1 ELSE 0]
        /\ sinceProbe' = IF tag = "probe"
                         THEN [sinceProbe EXCEPT ![endpoint] = 0]
                         ELSE sinceProbe
        /\ UNCHANGED <<now, rlVars, restVars, failure_threshold, recovery_timeout,
                       cbReq, cbLast>>

\* the clock advances by one tick
CBTick ==
    /\ now < MaxNow
    /\ now' = now + 1
    /\ UNCHANGED <<rlVars, cbVars, restVars>>

CBInitWith(configs) ==
    /\ \E cfg \in configs :
          /\ failure_threshold = cfg.failure_threshold
          /\ recovery_timeout = cfg.recovery_timeout
    /\ states = [e \in Endpoints |-> "closed"]
    /\ failure_counts = [e \in Endpoints |-> 0]
    /\ last_failure_times = <<>>
    /\ cbInflight = [x \in Endpoints \X Tags |-> 0]
    /\ cbResp = NoCBResp
    /\ cbReq = 0
    /\ cbLast = ""
    /\ consec = [e \in Endpoints |-> 0]
    /\ sinceProbe = [e \in Endpoints |-> 0]

CBNext ==
    \/ \E e \in Endpoints : CBReject(e)
    \/ \E e \in Endpoints : CBPass(e)
    \/ \E e \in Endpoints, tag \in Tags, o \in CBOutcomes : CBComplete(e, tag, o)
    \/ CBTick

\* ------------------------------------------------------------------------
\* AlertingMiddleware and AlertDispatcher
\* ------------------------------------------------------------------------
\* event types counted by AlertingMiddleware.dispatch (large_payloads, the
\* third one, is counted the same way and left out)
EventTypes == {"rate_limit", "auth_failures"}

\* status codes of the responses coming back from call_next
ALStatuses == {200, 401, 429}

\* the two integrations of AlertDispatcher
Sinks == {"teams", "email"}

\* what a sink does when it is called: it returns or it raises
\* (TeamsWebhookError, EmailDeliveryError)
SinkOutcomes == [Sinks -> {"ok", "raise"}]

\* alert_threshold given to AlertingMiddleware and the sinks configured in
\* AlertDispatcher; a type missing from alert_threshold has no threshold
ALConfigs ==
    { [thresholds |-> [rate_limit |-> 1],
       teams_webhook_url |-> TRUE, email_config |-> TRUE],
      [thresholds |-> [rate_limit |-> 2, auth_failures |-> 1],
       teams_webhook_url |-> FALSE, email_config |-> TRUE] }

\* time.time() counts seconds from 1970: at every call the clock is more than
\* alert_cooldown past 0, the value read for a type that never alerted
Epoch == CooldownTicks + 1

\* time between two steps: just under, exactly and just over alert_cooldown
ALDeltas == {CooldownTicks - 1, CooldownTicks, CooldownTicks + 1}

NoALResp == [kind |-> "none", status |-> 0]

NoCall == [event_type |-> "", fired |-> FALSE, count |-> 0, raised |-> FALSE,
           ran |-> {}]

\* dispatch: the event type a response is counted under, if any
EventOf(status_code) ==
    IF status_code = 429 THEN {"rate_limit"}
    ELSE IF status_code = 401 THEN {"auth_failures"}
    ELSE IF status_code = 413 THEN {"large_payloads"}
    ELSE {}

\* _check_alert: self.thresholds.get(event_type, 100)
Threshold(event_type) ==
    IF event_type \in DOMAIN thresholds THEN thresholds[event_type]
    ELSE DEFAULT_THRESHOLD

\* _check_alert: now - last_alert > self.alert_cooldown
CooldownElapsed(elapsed) == elapsed > CooldownTicks

\* variant: every counter is cleared
ResetCounter_All(c, event_type) == [t \in DOMAIN c |-> 0]

\* _check_alert: self.counters[event_type] = 0
ResetCounter(c, event_type) == [c EXCEPT ![event_type] = 0]

\* variant: the call is made in place even with a running loop
_run_background_task_Inline(sink, running_loop, outcome) ==
    [ran |-> {sink}, queued |-> {}, raised |-> outcome = "raise"]

\* _run_background_task: with a running loop the call is handed to the
\* thread pool and nothing is awaited; without one the sink is called in
\* place and what it raises propagates
_run_background_task(sink, running_loop, outcome) ==
    IF running_loop
    THEN [ran |-> {}, queued |-> {sink}, raised |-> FALSE]
    ELSE [ran |-> {sink}, queued |-> {}, raised |-> outcome = "raise"]

NoTask == [ran |-> {}, queued |-> {}, raised |-> FALSE]

\* AlertDispatcher.dispatch: Teams first, then email; an exception leaving
\* the first call ends dispatch
dispatch(running_loop, outs) ==
    LET teams == IF teams_webhook_url
                 THEN _run_background_task("teams", running_loop,
                                           outs["teams"])
                 ELSE NoTask
        email == IF email_config /\ ~teams.raised
                 THEN _run_background_task("email", running_loop,
                                           outs["email"])
                 ELSE NoTask
    IN  [ran |-> teams.ran \cup email.ran,
         queued |-> teams.queued \cup email.queued,
         raised |-> teams.raised \/ email.raised]

\* _check_alert with _send_alert: the counter is incremented; at or above the
\* threshold and past the cooldown dispatch is called with the counter as
\* count, and only after it returned are the time recorded and the counter
\* cleared
_check_alert(event_type, running_loop, outs) ==
    LET count == counters[event_type] + 1
        last == IF event_type \in DOMAIN last_alert
                THEN last_alert[event_type] ELSE 0
        fire == /\ count >= Threshold(event_type)
                /\ CooldownElapsed(now - last)
        d == IF fire THEN dispatch(running_loop, outs) ELSE NoTask
        counted == [counters EXCEPT ![event_type] = count]
    IN  /\ counters' = IF fire /\ ~d.raised
                       THEN ResetCounter(counted, event_type)
                       ELSE counted
        /\ last_alert' = IF fire /\ ~d.raised
                         THEN Put(last_alert, event_type, now)
                         ELSE last_alert
        /\ executor' = [s \in Sinks |->
                          executor[s] + IF s \in d.queued THEN 1 ELSE 0]
        /\ alCall' = [event_type |-> event_type, fired |-> fire,
                      count |-> IF fire THEN count ELSE 0,
                      raised |-> d.raised, ran |-> d.ran]
        /\ last_sent' = IF fire
                        THEN [last_sent EXCEPT ![event_type] = now]
                        ELSE last_sent
        /\ sinceAlert' =
              [sinceAlert EXCEPT
                  ![event_type] =
                      IF \/ d.queued # {}
                         \/ \E s \in d.ran : outs[s] = "ok"
                      THEN 0 ELSE @ + 1]

\* with a running loop no sink is called before dispatch returns, so no
\* outcome plays a part in the caller's step
Deferred == [s \in Sinks |-> "ok"]

\* AlertingMiddleware.dispatch after call_next returned a response: a
\* coroutine, so the event loop is running; an exception leaving
\* _check_alert leaves dispatch too
ALDispatch(status_code) ==
    /\ nal < MaxALCalls
    /\ nal' = nal + 1
    /\ IF EventOf(status_code) = {}
       THEN /\ alCall' = NoCall
            /\ UNCHANGED <<counters, last_alert, executor, last_sent,
                           sinceAlert>>
       ELSE \E e \in EventOf(status_code) :
               _check_alert(e, TRUE, Deferred)
    /\ alResp' = IF alCall'.raised THEN [kind |-> "raise", status |-> 0]
                 ELSE [kind |-> "response", status |-> status_code]
    /\ UNCHANGED <<now, rlVars, cbVars, ddVars, tailVars, thresholds,
                   teams_webhook_url, email_config>>

\* _check_alert called by synchronous code, outside any event loop
ALCheckDirect(event_type, outs) ==
    /\ nal < MaxALCalls
    /\ nal' = nal + 1
    /\ _check_alert(event_type, FALSE, outs)
    /\ alResp' = NoALResp
    /\ UNCHANGED <<now, rlVars, cbVars, ddVars, tailVars, thresholds,
                   teams_webhook_url, email_config>>

\* a worker of the thread pool runs a queued sink call; what the call raises
\* stays in the future that nobody reads
ExecRun(sink) ==
    /\ executor[sink] > 0
    /\ executor' = [executor EXCEPT ![sink] = @ - 1]
    /\ UNCHANGED <<now, rlVars, cbVars, ddVars, tailVars, thresholds,
                   teams_webhook_url, email_config, counters, last_alert,
                   alResp, alCall, last_sent, sinceAlert, nal>>

\* time passes
ALTick(d) ==
    /\ now + d <= Epoch + MaxALSpan * (CooldownTicks + 1)
    /\ now' = now + d
    /\ UNCHANGED <<rlVars, cbVars, alVars, ddVars, tailVars>>

\* the fields after __init__; with warm, a type without a threshold may have
\* been counted DEFAULT_THRESHOLD - 2 times already (no alert yet)
ALInitWith(configs, warm) ==
    /\ \E cfg \in configs :
          /\ thresholds = cfg.thresholds
          /\ teams_webhook_url = cfg.teams_webhook_url
          /\ email_config = cfg.email_config
    /\ counters \in [EventTypes -> {0, DEFAULT_THRESHOLD - 2}]
    /\ \A t \in EventTypes :
          counters[t] # 0 => warm /\ t \notin DOMAIN thresholds
    /\ last_alert = <<>>
    /\ executor = [s \in Sinks |-> 0]
    /\ alResp = NoALResp
    /\ alCall = NoCall
    /\ last_sent = [t \in EventTypes |-> -1]
    /\ sinceAlert = counters
    /\ nal = 0

ALNext ==
    \/ \E status_code \in ALStatuses : ALDispatch(status_code)
    \/ \E e \in EventTypes, outs \in SinkOutcomes : ALCheckDirect(e, outs)
    \/ \E sink \in Sinks : ExecRun(sink)
    \/ \E d \in ALDeltas : ALTick(d)

\* ------------------------------------------------------------------------
\* DDoSProtectionMiddleware
\* ------------------------------------------------------------------------
\* requests: the peer address (request.client.host, "" when request.client is
\* None) and the X-Forwarded-For header ("" when absent)
DDRequests ==
    { [peer |-> "10.0.0.1", xff |-> ""],
      [peer |-> "10.0.0.2", xff |-> ""],
      [peer |-> "10.0.0.2", xff |-> "10.0.0.1"] }

\* _get_client_ip: the first element of X-Forwarded-For, else the peer, else
\* "unknown" (the requests carry a single-element header)
_get_client_ip(request) ==
    IF request.xff # "" THEN request.xff
    ELSE IF request.peer # "" THEN request.peer
    ELSE "unknown"

DDClients == { _get_client_ip(r) : r \in DDRequests }

\* thresholds given to the constructor
DDConfigs ==
    { [syn_threshold |-> 1, rate_threshold |-> 3, ip_threshold |-> 1],
      [syn_threshold |-> 2, rate_threshold |-> 1, ip_threshold |-> 500] }

\* how call_next ends: a response, an exception, or the cancellation of the
\* request's task
DDOutcomes == {Outcome("response", 200), Outcome("raise", 0),
               Outcome("cancel", 0)}

NoDDResp == [kind |-> "none", status |-> 0, client |-> "", handler |-> FALSE]

\* variant: the blocked set is not consulted
IsBlocked_Never(client_ip) == FALSE

\* dispatch: client_ip in self.blocked_ips
IsBlocked(client_ip) == client_ip \in blocked_ips

\* variant: the unique-IP check blocks as well
_detect_attack_BlockOnUniqueIps(client_ip, cc) ==
    LET appended == Append(request_counts[client_ip], now)
        recent == SelectSeq(appended, LAMBDA t : now - t < DDWindowTicks)
    IN  [attack |-> \/ cc > syn_threshold
                    \/ Len(recent) > rate_threshold
                    \/ Cardinality(unique_ips \cup {client_ip}) > ip_threshold,
         request_counts |-> [request_counts EXCEPT ![client_ip] = recent]]

\* _detect_attack, called after the connection count was incremented to cc:
\* the verdict and the request_counts it leaves (the unique-IP check only logs)
_detect_attack(client_ip, cc) ==
    IF cc > syn_threshold
    THEN [attack |-> TRUE, request_counts |-> request_counts]
    ELSE LET appended == Append(request_counts[client_ip], now)
             recent == SelectSeq(appended,
                                 LAMBDA t : now - t < DDWindowTicks)
         IN  [attack |-> Len(recent) > rate_threshold,
              request_counts |->
                  [request_counts EXCEPT ![client_ip] = recent]]

\* dispatch of a request of a blocked client: 403
DDReject(request) ==
    LET client_ip == _get_client_ip(request)
    IN  /\ ddReq < MaxDDRequests
        /\ IsBlocked(client_ip)
        /\ ddReq' = ddReq + 1
        /\ ddLast' = client_ip
        /\ ddSeen' = [ddSeen EXCEPT ![client_ip] = Append(@, now)]
        /\ ddResp' = [kind |-> "response", status |-> 403,
                      client |-> client_ip, handler |-> FALSE]
        /\ UNCHANGED <<now, rlVars, cbVars, alVars, tailVars, syn_threshold,
                       rate_threshold, ip_threshold, connection_counts,
                       request_counts, unique_ips, blocked_ips, ddWake,
                       ddInflight>>

\* dispatch of a request in which _detect_attack answers True: the client is
\* blocked and 429 returned, before the try/finally is entered
DDBlock(request) ==
    LET client_ip == _get_client_ip(request)
        cc == connection_counts[client_ip] + 1
        verdict == _detect_attack(client_ip, cc)
    IN  /\ ddReq < MaxDDRequests
        /\ ~IsBlocked(client_ip)
        /\ verdict.attack
        /\ ddReq' = ddReq + 1
        /\ ddLast' = client_ip
        /\ ddSeen' = [ddSeen EXCEPT ![client_ip] = Append(@, now)]
        /\ connection_counts' = [connection_counts EXCEPT ![client_ip] = cc]
        /\ unique_ips' = unique_ips \cup {client_ip}
        /\ request_counts' = verdict.request_counts
        /\ blocked_ips' = blocked_ips \cup {client_ip}
        /\ ddResp' = [kind |-> "response", status |-> 429,
                      client |-> client_ip, handler |-> FALSE]
        /\ UNCHANGED <<now, rlVars, cbVars, alVars, tailVars, syn_threshold,
                       rate_threshold, ip_threshold, ddWake, ddInflight>>

\* dispatch up to the await of call_next, no attack detected
DDPass(request) ==
    LET client_ip == _get_client_ip(request)
        cc == connection_counts[client_ip] + 1
        verdict == _detect_attack(client_ip, cc)
    IN  /\ ddReq < MaxDDRequests
        /\ ddInflight[client_ip] < MaxDDInflight
        /\ ~IsBlocked(client_ip)
        /\ ~verdict.attack
        /\ ddReq' = ddReq + 1
        /\ ddLast' = client_ip
        /\ ddSeen' = [ddSeen EXCEPT ![client_ip] = Append(@, now)]
        /\ connection_counts' = [connection_counts EXCEPT ![client_ip] = cc]
        /\ unique_ips' = unique_ips \cup {client_ip}
        /\ request_counts' = verdict.request_counts
        /\ ddInflight' = [ddInflight EXCEPT ![client_ip] = @ + 1]
        /\ UNCHANGED <<now, rlVars, cbVars, alVars, tailVars, syn_threshold,
                       rate_threshold, ip_threshold, blocked_ips, ddWake,
                       ddResp>>

\* dispatch after call_next: the finally clause decrements the count, then
\* the response, the exception or the cancellation goes on to the caller
DDComplete(client_ip, o) ==
    /\ ddInflight[client_ip] > 0
    /\ ddInflight' = [ddInflight EXCEPT ![client_ip] = @ - 1]
    /\ connection_counts' = [connection_counts EXCEPT ![client_ip] = @ - 1]
    /\ ddResp' = [kind |-> o.kind, status |-> o.status,
                  client |-> client_ip, handler |-> TRUE]
    /\ UNCHANGED <<now, rlVars, cbVars, alVars, tailVars, syn_threshold,
                   rate_threshold, ip_threshold, request_counts, unique_ips,
                   blocked_ips, ddWake, ddReq, ddLast, ddSeen>>

\* one round of _cleanup_loop after its sleep
DDCleanup ==
    /\ now >= ddWake
    /\ unique_ips' = {}
    /\ blocked_ips' = {ip \in blocked_ips : connection_counts[ip] > 0}
    /\ ddWake' = now + DDSleepTicks
    /\ UNCHANGED <<now, rlVars, cbVars, alVars, tailVars, syn_threshold,
                   rate_threshold, ip_threshold, connection_counts,
                   request_counts, ddInflight, ddResp, ddReq, ddLast,
                   ddSeen>>

\* time between two requests: just under a minute, or a minute
DDDeltas == {DDWindowTicks - 1, DDWindowTicks}

DDTick(d) ==
    /\ now + d <= MaxDDSteps * DDWindowTicks
    /\ now + d < ddWake
    /\ now' = now + d
    /\ UNCHANGED <<rlVars, cbVars, alVars, ddVars, tailVars>>

\* time passes until the sleep of _cleanup_loop ends
DDSleep ==
    /\ now < ddWake
    /\ ddWake <= MaxDDCleanups * DDSleepTicks
    /\ now' = ddWake
    /\ UNCHANGED <<rlVars, cbVars, alVars, ddVars, tailVars>>

DDInitWith(configs) ==
    /\ \E cfg \in configs :
          /\ syn_threshold = cfg.syn_threshold
          /\ rate_threshold = cfg.rate_threshold
          /\ ip_threshold = cfg.ip_threshold
    /\ connection_counts = [c \in DDClients |-> 0]
    /\ request_counts = [c \in DDClients |-> <<>>]
    /\ unique_ips = {}
    /\ blocked_ips = {}
    /\ ddWake = now + DDSleepTicks
    /\ ddInflight = [c \in DDClients |-> 0]
    /\ ddResp = NoDDResp
    /\ ddReq = 0
    /\ ddLast = ""
    /\ ddSeen = [c \in DDClients |-> <<>>]

DDNext ==
    \/ \E request \in DDRequests : DDReject(request)
    \/ \E request \in DDRequests : DDBlock(request)
    \/ \E request \in DDRequests : DDPass(request)
    \/ \E c \in DDClients, o \in DDOutcomes : DDComplete(c, o)
    \/ DDCleanup
    \/ \E d \in DDDeltas : DDTick(d)
    \/ DDSleep

\* ------------------------------------------------------------------------
\* ContentValidationMiddleware (middleware/security.py)
\* ------------------------------------------------------------------------
\* A string is a sequence of tokens, each standing for a fixed run of
\* characters ("/", "api", ...), so that str.startswith is the prefix order
\* of sequences.  NUL stands for the character "\x00".
StartsWith(s, prefix) ==
    /\ Len(prefix) <= Len(s)
    /\ SubSeq(s, 1, Len(prefix)) = prefix

Entry(pattern, limit) == [pattern |-> pattern, limit |-> limit]

\* a dict is the sequence of its entries in insertion order, which is the
\* order in which .items() yields them
DEFAULT_LIMITS ==
    << Entry(<<"/", "api", "/", "upload">>, 50 * 1024 * 1024),
       Entry(<<"/", "api", "/", "import">>, 10 * 1024 * 1024),
       Entry(<<"/", "api", "/">>, 1 * 1024 * 1024),
       Entry(<<"/", "webhook">>, 256 * 1024),
       Entry(<<"/", "graphql">>, 100 * 1024),
       Entry(<<"/">>, 64 * 1024) >>

ALLOWED_CONTENT_TYPES ==
    [POST |-> {"application/json", "application/x-www-form-urlencoded",
               "multipart/form-data", "text/plain"},
     PUT |-> {"application/json", "application/octet-stream",
              "multipart/form-data"},
     PATCH |-> {"application/json", "application/merge-patch+json"}]

\* the limit _get_size_limit falls back to when the table has no "/" entry
FALLBACK_LIMIT == 64 * 1024

\* the methods dispatch lets through unchecked
BODYLESS_METHODS == {"GET", "HEAD", "OPTIONS"}

\* the size-limit tables passed to the constructor: none (<<>>, which stands
\* for None and for the empty dict), the table of the repository's test, and
\* two tables with the same entries in the two orders
CVTables ==
    { <<>>,
      << Entry(<<"/", "api", "/">>, 100) >>,
      << Entry(<<"/", "api", "/">>, 100), Entry(<<"/">>, 64) >>,
      << Entry(<<"/">>, 64), Entry(<<"/", "api", "/">>, 100) >> }

\* the allow-lists passed to the constructor: none (<<>>) and one that
\* constrains POST only
CVAllowed == { <<>>, [POST |-> {"application/json"}] }

CVConfigs ==
    [size_limits : CVTables, allowed_types : CVAllowed,
     block_null_bytes : BOOLEAN]

CVMethods == {"GET", "OPTIONS", "POST", "PUT", "DELETE"}

CVPaths ==
    { <<"/", "api", "/", "test">>,
      <<"/", "api", "/", "upload">>,
      <<"/", "webhook">>,
      <<"/", "api", "/", "test", "NUL">> }

\* Content-Length header values: absent (<<>>) or the digits the HTTP server
\* lets through
CVLengths ==
    { <<>>, <<0>>, <<0, 5, 0>>, <<6, 4>>, <<6, 5>>, <<1, 0, 0>>, <<1, 0, 1>>,
      <<2, 5, 0>>, <<6, 5, 5, 3, 6>>, <<6, 5, 5, 3, 7>> }

\* Content-Type header values: absent (<<>>) or the fields between the ";",
\* each a sequence of tokens in which " " is a blank
CVTypes ==
    { <<>>,
      << <<"application/json">> >>,
      << <<"application/json", " ">>, <<" ", "charset=utf-8">> >>,
      << <<"application/octet-stream">> >>,
      << <<"text/xml">> >> }

CVRequests ==
    [method : CVMethods, path : CVPaths, content_length : CVLengths,
     content_type : CVTypes]

NoCVReq == [method |-> "", path |-> <<>>, content_length |-> <<>>,
            content_type |-> <<>>]
NoCVResp == [status |-> 0, max_size |-> 0, handler |-> FALSE]

\* int(content_length) of a string of decimal digits
RECURSIVE int(_)
int(digits) ==
    IF digits = <<>> THEN 0
    ELSE 10 * int(SubSeq(digits, 1, Len(digits) - 1)) + digits[Len(digits)]

\* str.strip()
RECURSIVE strip(_)
strip(s) ==
    IF s = <<>> THEN s
    ELSE IF Head(s) = " " THEN strip(Tail(s))
    ELSE IF s[Len(s)] = " " THEN strip(SubSeq(s, 1, Len(s) - 1))
    ELSE s

\* request.headers.get("content-type", "").split(";")[0].strip(); the value is
\* "" or one token
MediaType(header) ==
    LET first == IF header = <<>> THEN <<>> ELSE strip(Head(header))
    IN  IF first = <<>> THEN "" ELSE first[1]

\* "\x00" in str(request.url)
HasNul(path) == \E i \in 1..Len(path) : path[i] = "NUL"

\* for pattern, limit in self.size_limits.items():
\*     if path.startswith(pattern): return limit
\* return self.size_limits.get("/", 64 * 1024)
_get_size_limit(path) ==
    LET hits == {i \in 1..Len(size_limits) :
                    StartsWith(path, size_limits[i].pattern)}
        root == {i \in 1..Len(size_limits) : size_limits[i].pattern = <<"/">>}
    IN  IF hits # {}
        THEN size_limits[CHOOSE i \in hits : \A j \in hits : i <= j].limit
        ELSE IF root # {} THEN size_limits[CHOOSE i \in root : TRUE].limit
        ELSE FALLBACK_LIMIT

\* self.allowed_types.get(request.method, set())
AllowedFor(method) ==
    IF method \in DOMAIN allowed_types THEN allowed_types[method] ELSE {}

SizeFails_AtLimit(request) ==
    /\ request.content_length # <<>>
    /\ int(request.content_length) >= _get_size_limit(request.path)

SizeFails(request) ==
    /\ request.content_length # <<>>
    /\ int(request.content_length) > _get_size_limit(request.path)

TypeFails(request) ==
    /\ MediaType(request.content_type) # ""
    /\ AllowedFor(request.method) # {}
    /\ MediaType(request.content_type) \notin AllowedFor(request.method)

NulFails(request) == block_null_bytes /\ HasNul(request.path)

Rejected(status, max_size) ==
    [status |-> status, max_size |-> max_size, handler |-> FALSE]

\* await call_next(request): the handler answers 200
CallNext == [status |-> 200, max_size |-> 0, handler |-> TRUE]

ValidateContent_TypeFirst(request) ==
    IF request.method \in BODYLESS_METHODS THEN CallNext
    ELSE IF TypeFails(request) THEN Rejected(415, 0)
    ELSE IF SizeFails(request)
    THEN Rejected(413, _get_size_limit(request.path))
    ELSE IF NulFails(request) THEN Rejected(400, 0)
    ELSE CallNext

\* the answer of ContentValidationMiddleware.dispatch
ValidateContent(request) ==
    IF request.method \in BODYLESS_METHODS THEN CallNext
    ELSE IF SizeFails(request)
    THEN Rejected(413, _get_size_limit(request.path))
    ELSE IF TypeFails(request) THEN Rejected(415, 0)
    ELSE IF NulFails(request) THEN Rejected(400, 0)
    ELSE CallNext

\* the validator keeps no state between requests, so one request at a time
\* is followed
CVDispatch(request) ==
    /\ cvReq = NoCVReq
    /\ cvReq' = request
    /\ cvResp' = ValidateContent(request)
    /\ UNCHANGED <<now, rlVars, cbVars, alVars, ddVars, phVars, rdVars,
                   jwVars, ppVars, size_limits, allowed_types, block_null_bytes>>

\* __init__: a falsy argument is replaced by the class attribute
CVInitWith(configs) ==
    /\ \E cfg \in configs :
        /\ size_limits = IF cfg.size_limits = <<>> THEN DEFAULT_LIMITS
                         ELSE cfg.size_limits
        /\ allowed_types = IF cfg.allowed_types = <<>>
                           THEN ALLOWED_CONTENT_TYPES
                           ELSE cfg.allowed_types
        /\ block_null_bytes = cfg.block_null_bytes
    /\ cvReq = NoCVReq
    /\ cvResp = NoCVResp

\* the response has left the middleware
CVDone ==
    /\ cvReq # NoCVReq
    /\ cvReq' = NoCVReq
    /\ cvResp' = NoCVResp
    /\ UNCHANGED <<now, rlVars, cbVars, alVars, ddVars, phVars, rdVars,
                   jwVars, ppVars, size_limits, allowed_types, block_null_bytes>>

CVNext ==
    \/ \E request \in CVRequests : CVDispatch(request)
    \/ CVDone

\* ------------------------------------------------------------------------
\* ProxyHeadersMiddleware (middleware/security.py)
\* ------------------------------------------------------------------------
DEFAULT_TRUSTED == {"127.0.0.1", "::1"}

\* the trusted_proxies argument: none ({}, which stands for None and for the
\* empty set), the set of the repository's test, and the loopback address
PHConfigs == { {}, {"192.168.1.1"}, {"127.0.0.1"} }

\* request.client of the connection: (host, port), or None (<<>>)
NoClient == <<>>
PHPeers ==
    { NoClient, <<"127.0.0.1", 40000>>, <<"192.168.1.1", 40000>>,
      <<"203.0.113.9", 40000>> }

\* X-Forwarded-For values: absent (<<>>) or the fields between the ",", each
\* a sequence of tokens in which " " is a blank
PHForwardedFor ==
    { <<>>, << <<" ", "10.0.0.1", " ">>, <<" ", "10.0.0.3">> >> }

\* the other forwarded headers: absent ("") or a value
PHRealIp == {"", "10.0.0.2"}
PHProto == {"", "https"}
PHHost == {"", "evil.example"}

PHRequests ==
    [client : PHPeers, forwarded_for : PHForwardedFor, real_ip : PHRealIp,
     forwarded_proto : PHProto, forwarded_host : PHHost]

NoPHReq ==
    [client |-> NoClient, forwarded_for |-> <<>>, real_ip |-> "none",
     forwarded_proto |-> "", forwarded_host |-> ""]

\* the part of the ASGI scope that the middleware may rewrite
Scope(client, scheme, server) ==
    [client |-> client, scheme |-> scheme, server |-> server]

\* the scope the server built for the connection
ScopeIn(request) == Scope(request.client, "http", <<"testserver", 80>>)

NoScope == Scope(NoClient, "", <<>>)

\* forwarded_for.split(",")[0].strip(); "" or one token
FirstForwarded(forwarded_for) ==
    LET first == strip(Head(forwarded_for))
    IN  IF first = <<>> THEN "" ELSE first[1]

\* request.client and request.client.host in self.trusted_proxies
FromTrustedProxy(request) ==
    /\ request.client # NoClient
    /\ request.client[1] \in trusted_proxies

ProxyResolve_TrustAll(request) ==
    LET scope == ScopeIn(request)
        port == IF request.client = NoClient THEN 0 ELSE request.client[2]
    IN  Scope(IF request.forwarded_for # <<>>
              THEN <<FirstForwarded(request.forwarded_for), port>>
              ELSE IF request.real_ip # ""
              THEN <<request.real_ip, port>>
              ELSE scope.client,
              IF request.forwarded_proto # ""
              THEN request.forwarded_proto ELSE scope.scheme,
              IF request.forwarded_host # ""
              THEN <<request.forwarded_host, scope.server[2]>>
              ELSE scope.server)

\* the scope after ProxyHeadersMiddleware.dispatch, as call_next receives it
ProxyResolve(request) ==
    LET scope == ScopeIn(request)
    IN  IF ~FromTrustedProxy(request) THEN scope
        ELSE Scope(IF request.forwarded_for # <<>>
                   THEN <<FirstForwarded(request.forwarded_for),
                          request.client[2]>>
                   ELSE IF request.real_ip # ""
                   THEN <<request.real_ip, request.client[2]>>
                   ELSE scope.client,
                   IF request.forwarded_proto # ""
                   THEN request.forwarded_proto ELSE scope.scheme,
                   IF request.forwarded_host # ""
                   THEN <<request.forwarded_host, scope.server[2]>>
                   ELSE scope.server)

PHDispatch(request) ==
    /\ phReq' = request
    /\ phScope' = ProxyResolve(request)
    /\ phPrev' = [request |-> phReq, scope |-> phScope]
    /\ UNCHANGED <<now, rlVars, cbVars, alVars, ddVars, cvVars, rdVars,
                   jwVars, ppVars, trusted_proxies>>

\* __init__: a falsy argument is replaced by the loopback addresses
PHInitWith(configs) ==
    /\ \E cfg \in configs :
        trusted_proxies = IF cfg = {} THEN DEFAULT_TRUSTED ELSE cfg
    /\ phReq = NoPHReq
    /\ phScope = NoScope
    /\ phPrev = [request |-> NoPHReq, scope |-> NoScope]

PHNext == \E request \in PHRequests : PHDispatch(request)

\* ------------------------------------------------------------------------
\* RedisRateLimitMiddleware (middleware/rate_limit.py)
\* ------------------------------------------------------------------------
\* the processes, each with its own instance of the middleware, and the one
\* store they share
Procs == {"p1", "p2"}

rd_excluded_paths ==
    {"/health", "/metrics", "/docs", "/openapi.json", "/favicon.ico"}

endpoint_limits ==
    [p \in {"/api/auth/login", "/api/auth/register", "/api/password-reset",
            "/api/upload"} |->
        CASE p = "/api/auth/login" -> 5
          [] p = "/api/auth/register" -> 10
          [] p = "/api/password-reset" -> 3
          [] OTHER -> 20]

user_multiplier == 2

tier_multipliers ==
    [t \in {"free", "basic", "pro", "enterprise"} |->
        CASE t = "free" -> 1 [] t = "basic" -> 2 [] t = "pro" -> 5
          [] OTHER -> 10]

RDReq(peer, xff, real_ip, user_id, user_tier, path) ==
    [peer |-> peer, xff |-> xff, real_ip |-> real_ip, user_id |-> user_id,
     user_tier |-> user_tier, path |-> path]

\* an anonymous client, an authenticated user, and a request to an excluded
\* path
RDRequests ==
    { RDReq("10.0.0.1", <<>>, "", "", "", "/api/test"),
      RDReq("10.0.0.3", <<>>, "", "u1", "", "/api/test"),
      RDReq("10.0.0.1", <<>>, "", "", "", "/health") }

\* _get_client_id: <<"user", id>> stands for "user:<id>" and <<"ip", ip>>
\* for "ip:<first 16 hex digits of sha256(ip)>"
_get_client_id(request) ==
    LET ip0 == IF request.peer # "" THEN request.peer ELSE "unknown"
        ip  == IF request.xff # <<>> THEN FirstForwarded(request.xff)
               ELSE IF request.real_ip # "" THEN request.real_ip
               ELSE ip0
    IN  IF request.user_id # "" THEN <<"user", request.user_id>>
        ELSE <<"ip", ip>>

\* _get_limit
_get_limit(request) ==
    LET l0 == IF request.path \in DOMAIN endpoint_limits
              THEN endpoint_limits[request.path] ELSE default_limit
        l1 == IF request.user_id # "" THEN l0 * user_multiplier ELSE l0
    IN  IF request.user_tier = "" THEN l1
        ELSE IF request.user_tier \in DOMAIN tier_multipliers
        THEN l1 * tier_multipliers[request.user_tier]
        ELSE l1

\* f"{self.key_prefix}:{client_id}:{path}"
KeyOf(request) == <<_get_client_id(request), request.path>>

RDKeys == { KeyOf(r) : r \in RDRequests }

\* default_limit and window_seconds given to the constructor
RDConfigs == { [default_limit |-> 1, window_seconds |-> 1] }

\* ZREMRANGEBYSCORE key 0 (t - window)
ZRemRangeByScore(members, lo, hi) == {m \in members : ~(lo <= m /\ m <= hi)}

\* ZADD key t t: a member that is already in the set is not added again
ZAdd(members, t) == members \cup {t}

\* math.ceil(oldest + window - t), in seconds
LuaRetryAfter(oldest, t) ==
    (oldest + window - t + TicksPerSec - 1) \div TicksPerSec

\* LUA_SCRIPT, run by the store as one step: the reply and the sorted set it
\* leaves behind
LuaScript(members, limit, t) ==
    LET kept == ZRemRangeByScore(members, 0, t - window)
        current == Cardinality(kept)
    IN  IF current < limit
        THEN [allowed |-> TRUE, value |-> limit - current - 1,
              members |-> ZAdd(kept, t), added |-> TRUE]
        ELSE [allowed |-> FALSE,
              value |-> IF kept = {} THEN 0
                        ELSE LuaRetryAfter(
                                 CHOOSE m \in kept : \A x \in kept : m <= x, t),
              members |-> kept, added |-> FALSE]

\* the positions of a request inside dispatch: awaiting script_load ("load"),
\* evalsha ("eval"), the script_load of the NoScriptError handler ("reload"),
\* call_next after the check ("handler") or call_next of the RedisError
\* handler ("failopen")
NoRDReq ==
    [proc |-> "", request |-> RDReq("", <<>>, "", "", "", ""), ts |-> 0,
     pc |-> "none", failed |-> FALSE, noscript |-> FALSE, calls |-> 0]

NoRDResp ==
    [status |-> 0, calls |-> 0, failed |-> FALSE, noscript |-> FALSE]

RDOutcomes == {"ok", "RedisError"}

\* what call_next does: the handler answers 200, raises, or raises a
\* RedisError of its own
RDHandlerOutcomes ==
    {Outcome("response", 200), Outcome("raise", 0), Outcome("RedisError", 0)}

RDSet(id, rec) == rdInflight' = [rdInflight EXCEPT ![id] = rec]

\* the request has left _check_rate_limit: its process and its timestamp are
\* not read any more
Leave(r, pc) == [r EXCEPT !.pc = pc, !.proc = "", !.ts = 0]

\* a request enters dispatch: an excluded path goes to the handler, any other
\* request reads the clock in _check_rate_limit and awaits the store
RDArrive(proc, request) ==
    /\ rdEvents < MaxRDEvents
    /\ \E id \in 1..MaxRDInflight : rdInflight[id] = NoRDReq
    /\ rdEvents' = rdEvents + 1
    /\ RDSet(CHOOSE id \in 1..MaxRDInflight :
                 /\ rdInflight[id] = NoRDReq
                 /\ \A j \in 1..(id - 1) : rdInflight[j] # NoRDReq,
             IF request.path \in rd_excluded_paths
             THEN [NoRDReq EXCEPT !.request = request, !.pc = "handler"]
             ELSE [NoRDReq EXCEPT !.proc = proc, !.request = request,
                      !.ts = now,
                      !.pc = IF _script_sha[proc] THEN "eval" ELSE "load"])
    /\ UNCHANGED <<now, rlVars, cbVars, alVars, ddVars, cvVars, phVars, jwVars,
                   ppVars,
                   default_limit, window, zsets, expires, server_scripts,
                   _script_sha, rdResp, rdAdmitted>>

\* script_load returns, at the first check of an instance or after a
\* NoScriptError; in the latter case _check_rate_limit starts again and reads
\* the clock again
RDLoad(id, o) ==
    LET r == rdInflight[id] IN
    /\ r.pc \in {"load", "reload"}
    /\ o = "RedisError" => rdEvents < MaxRDEvents
    /\ rdEvents' = IF o = "RedisError" THEN rdEvents + 1 ELSE rdEvents
    /\ IF o = "ok"
       THEN /\ _script_sha' = [_script_sha EXCEPT ![r.proc] = TRUE]
            /\ server_scripts' = TRUE
            /\ RDSet(id, [r EXCEPT !.pc = "eval",
                             !.ts = IF r.pc = "reload" THEN now ELSE r.ts])
       ELSE /\ RDSet(id, [Leave(r, "failopen") EXCEPT !.failed = TRUE])
            /\ UNCHANGED <<_script_sha, server_scripts>>
    /\ UNCHANGED <<now, rlVars, cbVars, alVars, ddVars, cvVars, phVars, jwVars,
                   ppVars,
                   default_limit, window, zsets, expires, rdResp, rdAdmitted>>

\* evalsha returns: a RedisError, a NoScriptError when the store no longer
\* holds the script, or the reply of the script; a denial is answered 429
RDEval(id, o) ==
    LET r == rdInflight[id]
        key == KeyOf(r.request)
        limit == _get_limit(r.request)
        reply == LuaScript(zsets[key], limit, r.ts)
    IN
    /\ r.pc = "eval"
    /\ o = "RedisError" => rdEvents < MaxRDEvents
    /\ rdEvents' = IF o = "RedisError" THEN rdEvents + 1 ELSE rdEvents
    /\ IF o = "RedisError"
       THEN /\ RDSet(id, [Leave(r, "failopen") EXCEPT !.failed = TRUE])
            /\ UNCHANGED <<zsets, expires, rdResp, rdAdmitted>>
       ELSE IF ~server_scripts
       THEN /\ RDSet(id, [r EXCEPT !.pc = "reload", !.noscript = TRUE])
            /\ UNCHANGED <<zsets, expires, rdResp, rdAdmitted>>
       ELSE /\ zsets' = [zsets EXCEPT ![key] = reply.members]
            /\ expires' = IF reply.added
                          THEN [expires EXCEPT ![key] = now + window]
                          ELSE expires
            /\ IF reply.allowed
               THEN /\ RDSet(id, Leave(r, "handler"))
                    /\ rdAdmitted' =
                           [rdAdmitted EXCEPT ![key][r.ts] = @ + 1]
                    /\ UNCHANGED rdResp
               ELSE /\ RDSet(id, NoRDReq)
                    /\ rdResp' = [status |-> 429, calls |-> 0,
                                  failed |-> r.failed,
                                  noscript |-> r.noscript]
                    /\ UNCHANGED rdAdmitted
    /\ UNCHANGED <<now, rlVars, cbVars, alVars, ddVars, cvVars, phVars, jwVars,
                   ppVars,
                   default_limit, window, server_scripts, _script_sha>>

CallNextResult_Skip(r, o) ==
    IF r.failed
    THEN [status |-> 500, calls |-> r.calls, failed |-> r.failed,
          noscript |-> r.noscript]
    ELSE [status |-> IF o.kind = "response" THEN o.status ELSE 500,
          calls |-> r.calls + 1, failed |-> r.failed, noscript |-> r.noscript]

\* what leaves dispatch when call_next has returned a response or raised
CallNextResult(r, o) ==
    [status |-> IF o.kind = "response" THEN o.status ELSE 500,
     calls |-> r.calls + 1, failed |-> r.failed, noscript |-> r.noscript]

\* call_next returns or raises.  After the check it runs inside the try
\* block, so a RedisError raised by the handler is caught and call_next is
\* awaited a second time; the call of an excluded path and the one of the
\* RedisError handler are outside of it.
RDComplete(id, o) ==
    LET r == rdInflight[id]
        in_try == r.pc = "handler"
                  /\ r.request.path \notin rd_excluded_paths
    IN
    /\ r.pc \in {"handler", "failopen"}
    /\ o.kind = "RedisError" => rdEvents < MaxRDEvents
    /\ rdEvents' = IF o.kind = "RedisError" THEN rdEvents + 1 ELSE rdEvents
    /\ IF o.kind = "RedisError" /\ in_try
       THEN /\ RDSet(id, [r EXCEPT !.pc = "failopen", !.calls = @ + 1])
            /\ UNCHANGED rdResp
       ELSE /\ RDSet(id, NoRDReq)
            /\ rdResp' = CallNextResult(r, o)
    /\ UNCHANGED <<now, rlVars, cbVars, alVars, ddVars, cvVars, phVars, jwVars,
                   ppVars,
                   default_limit, window, zsets, expires, server_scripts,
                   _script_sha, rdAdmitted>>

\* the store loses its script cache (SCRIPT FLUSH, or a restart)
RDScriptFlush ==
    /\ server_scripts
    /\ rdEvents < MaxRDEvents
    /\ rdEvents' = rdEvents + 1
    /\ server_scripts' = FALSE
    /\ UNCHANGED <<now, rlVars, cbVars, alVars, ddVars, cvVars, phVars, jwVars,
                   ppVars,
                   default_limit, window, zsets, expires, _script_sha,
                   rdInflight, rdResp, rdAdmitted>>

\* the clock advances by one tick; the store drops the keys that expire
RDTick ==
    /\ now < MaxRDNow
    /\ now' = now + 1
    /\ zsets' = [k \in DOMAIN zsets |->
                    IF zsets[k] # {} /\ expires[k] <= now' THEN {}
                    ELSE zsets[k]]
    /\ UNCHANGED <<rlVars, cbVars, alVars, ddVars, cvVars, phVars, jwVars,
                   ppVars, default_limit, window, expires, server_scripts,
                   _script_sha, rdInflight, rdResp, rdEvents, rdAdmitted>>

RDInitWith(configs) ==
    /\ \E cfg \in configs :
        /\ default_limit = cfg.default_limit
        /\ window = cfg.window_seconds * TicksPerSec
    /\ zsets = [k \in RDKeys |-> {}]
    /\ expires = [k \in RDKeys |-> 0]
    /\ server_scripts = FALSE
    /\ _script_sha = [p \in Procs |-> FALSE]
    /\ rdInflight = [i \in 1..MaxRDInflight |-> NoRDReq]
    /\ rdResp = NoRDResp
    /\ rdEvents = 0
    /\ rdAdmitted = [k \in RDKeys |-> [t \in 0..MaxRDNow |-> 0]]

RDNext ==
    \/ \E proc \in Procs, request \in RDRequests : RDArrive(proc, request)
    \/ \E id \in 1..MaxRDInflight, o \in RDOutcomes : RDLoad(id, o)
    \/ \E id \in 1..MaxRDInflight, o \in RDOutcomes : RDEval(id, o)
    \/ \E id \in 1..MaxRDInflight, o \in RDHandlerOutcomes :
           RDComplete(id, o)
    \/ RDScriptFlush
    \/ RDTick

\* ------------------------------------------------------------------------
\* JWTAuthenticationMiddleware (middleware/auth.py)
\* ------------------------------------------------------------------------
DEFAULT_AUTH_REQUIRED == << <<"/", "api", "/">> >>

DEFAULT_PUBLIC ==
    << <<"/", "health">>, <<"/", "health", "/", "ready">>, <<"/", "docs">>,
       <<"/", "openapi.json">>, <<"/", "api", "/", "auth", "/">> >>

\* the lists given to the constructor: none (<<>>, which stands for None and
\* for the empty list), and lists in which a public prefix lies under an
\* auth-required one and the other way round
JWConfigs ==
    [auth_required_paths : { <<>>, << <<"/", "api", "/">>, <<"/", "docs">> >> },
     public_paths : { <<>>, << <<"/", "api", "/", "auth", "/">>, <<"/">> >>,
                      << <<"/", "docs", "/", "public">> >> },
     JWT_AVAILABLE : BOOLEAN]

JWPaths ==
    { <<"/", "api", "/", "test">>,
      <<"/", "api", "/", "auth", "/", "login">>,
      <<"/", "health">>,
      <<"/", "docs", "/", "public">>,
      <<"/", "docs", "/", "private">>,
      <<"/", "other">> }

\* a token as jwt.decode sees it: is the signature that of secret_key under
\* the configured algorithm, and the exp claim relative to the clock (NoExp
\* when the payload has none); NoToken is the empty string
NoExp == 99
JWToken(sig_ok, exp, sub) == [sig_ok |-> sig_ok, exp |-> exp, sub |-> sub]
NoToken == JWToken(FALSE, NoExp, "")
JWTokens ==
    { JWToken(TRUE, 1, "u1"), JWToken(TRUE, NoExp, "u1"),
      JWToken(TRUE, 0, "u1"), JWToken(TRUE, -1, "u1"),
      JWToken(FALSE, 1, "u1") }

\* the Authorization header: absent (<<>>), or a scheme and what follows it
JWAuthHeaders ==
    { <<>>, <<"Bearer ", NoToken>>, <<"bearer ", JWToken(TRUE, 1, "u1")>> }
    \cup { <<"Bearer ", t>> : t \in JWTokens }

\* the access_token cookie and the token query parameter: absent (NoToken) or
\* a token
JWCookies == {NoToken, JWToken(TRUE, 1, "u1"), JWToken(TRUE, -1, "u1")}
JWParams == {NoToken, JWToken(TRUE, 1, "u1"), JWToken(FALSE, 1, "u1")}

JWRequests ==
    [path : JWPaths, authorization : JWAuthHeaders, cookie : JWCookies,
     token_param : JWParams]

NoJWReq == [path |-> <<>>, authorization |-> <<>>, cookie |-> NoToken,
            token_param |-> NoToken]

\* request.state as the handler sees it
Anonymous == [is_authenticated |-> FALSE, user_id |-> ""]

NoJWResp ==
    [status |-> 0, www_authenticate |-> "", handler |-> FALSE,
     state |-> Anonymous]

\* _extract_token: None and "" are both NoToken
_extract_token(request) ==
    IF request.authorization # <<>> /\ request.authorization[1] = "Bearer "
    THEN request.authorization[2]
    ELSE IF request.cookie # NoToken THEN request.cookie
    ELSE request.token_param

\* _validate_token at time 0 of the token's clock: jwt.decode checks the
\* signature and then the expiry, and the code checks the expiry again
_validate_token(token) ==
    IF ~token.sig_ok THEN "InvalidTokenError"
    ELSE IF token.exp # NoExp /\ token.exp <= 0 THEN "ExpiredSignatureError"
    ELSE "ok"

_path_requires_auth_AuthFirst(path) ==
    IF \E i \in 1..Len(auth_required_paths) :
           StartsWith(path, auth_required_paths[i])
    THEN TRUE
    ELSE FALSE

\* _path_requires_auth: the public list is searched first
_path_requires_auth(path) ==
    IF \E i \in 1..Len(public_paths) : StartsWith(path, public_paths[i])
    THEN FALSE
    ELSE IF \E i \in 1..Len(auth_required_paths) :
                StartsWith(path, auth_required_paths[i])
    THEN TRUE
    ELSE FALSE

Unauthorized ==
    [status |-> 401, www_authenticate |-> "Bearer", handler |-> FALSE,
     state |-> Anonymous]

\* await call_next(request): the handler answers 200
JWCallNext(state) ==
    [status |-> 200, www_authenticate |-> "", handler |-> TRUE,
     state |-> state]

\* the answer of JWTAuthenticationMiddleware.dispatch
Authenticate(request) ==
    LET requires_auth == _path_requires_auth(request.path)
        token == _extract_token(request)
        verdict == IF token # NoToken /\ JWT_AVAILABLE
                   THEN _validate_token(token) ELSE "none"
        state == IF verdict = "ok"
                 THEN [is_authenticated |-> TRUE, user_id |-> token.sub]
                 ELSE Anonymous
    IN  IF verdict \in {"ExpiredSignatureError", "InvalidTokenError"}
           /\ requires_auth
        THEN Unauthorized
        ELSE IF requires_auth /\ ~state.is_authenticated THEN Unauthorized
        ELSE JWCallNext(state)

\* the middleware keeps no state between requests, so one request at a time
\* is followed
JWDispatch(request) ==
    /\ jwReq = NoJWReq
    /\ jwReq' = request
    /\ jwResp' = Authenticate(request)
    /\ UNCHANGED <<now, rlVars, cbVars, alVars, ddVars, cvVars, phVars, rdVars,
                   ppVars, auth_required_paths, public_paths, JWT_AVAILABLE>>

\* the response has left the middleware
JWDone ==
    /\ jwReq # NoJWReq
    /\ jwReq' = NoJWReq
    /\ jwResp' = NoJWResp
    /\ UNCHANGED <<now, rlVars, cbVars, alVars, ddVars, cvVars, phVars, rdVars,
                   ppVars, auth_required_paths, public_paths, JWT_AVAILABLE>>

\* __init__: a falsy argument is replaced by the default list
JWInitWith(configs) ==
    /\ \E cfg \in configs :
        /\ auth_required_paths = IF cfg.auth_required_paths = <<>>
                                 THEN DEFAULT_AUTH_REQUIRED
                                 ELSE cfg.auth_required_paths
        /\ public_paths = IF cfg.public_paths = <<>> THEN DEFAULT_PUBLIC
                          ELSE cfg.public_paths
        /\ JWT_AVAILABLE = cfg.JWT_AVAILABLE
    /\ jwReq = NoJWReq
    /\ jwResp = NoJWResp

JWNext ==
    \/ \E request \in JWRequests : JWDispatch(request)
    \/ JWDone

\* ------------------------------------------------------------------------
\* register_middlewares (core/middleware.py) and the chain it builds
\* ------------------------------------------------------------------------
\* The settings that decide which middleware is registered.  Those of the
\* middleware left out of the chain are at their defaults: geo-blocking and
\* metrics disabled, allowed_hosts ["*"], no CORS origin, alerting disabled.
PPSettings ==
    [rate_limit_enabled : BOOLEAN, trust_proxy_headers : BOOLEAN,
     jwt_secret : BOOLEAN, enable_circuit_breaker : BOOLEAN,
     enable_ddos_protection : BOOLEAN, is_production : BOOLEAN]

PPDefault ==
    [rate_limit_enabled |-> TRUE, trust_proxy_headers |-> FALSE,
     jwt_secret |-> FALSE, enable_circuit_breaker |-> FALSE,
     enable_ddos_protection |-> FALSE, is_production |-> FALSE]

\* the calls of app.add_middleware made by register_middlewares, in the order
\* in which they are made
Registered(st) ==
    <<"SecurityHeadersMiddleware">>
    \o (IF st.rate_limit_enabled THEN <<"SimpleRateLimitMiddleware">>
        ELSE <<>>)
    \o <<"ContentValidationMiddleware">>
    \o (IF st.trust_proxy_headers THEN <<"ProxyHeadersMiddleware">> ELSE <<>>)
    \o (IF st.jwt_secret THEN <<"JWTAuthenticationMiddleware">> ELSE <<>>)
    \o (IF st.enable_circuit_breaker THEN <<"CircuitBreakerMiddleware">>
        ELSE <<>>)
    \o (IF st.enable_ddos_protection THEN <<"DDoSProtectionMiddleware">>
        ELSE <<>>)
    \o <<"RequestIDMiddleware", "RequestLoggingMiddleware">>

Reverse(seq) == [i \in 1..Len(seq) |-> seq[Len(seq) + 1 - i]]

\* Starlette's add_middleware inserts at the head of app.user_middleware, and
\* the stack is built so that the head of the list is the outermost: the
\* middleware added last sees the request first
add_middleware(calls) == Reverse(calls)

\* the fixed headers SecurityHeadersMiddleware sets on a response
SECURITY_HEADERS ==
    {"X-Content-Type-Options", "X-Frame-Options", "Referrer-Policy",
     "Permissions-Policy", "Cache-Control", "Server"}

\* A request to the chain, with the verdict each middleware reaches on it:
\* is the client over its rate limit, the status the content validator
\* rejects it with (0: none), is it refused by the authenticator, is the
\* circuit of its endpoint open, the status the DDoS protection rejects it
\* with (403 for a blocked client, 429 for a detected attack, 0: none), and
\* what the handler does with it.
PPRequests ==
    [scheme : {"http", "https"}, rate_limited : BOOLEAN,
     content : {0, 413, 415, 400}, unauthorized : BOOLEAN,
     circuit_open : BOOLEAN, ddos : {0, 403, 429},
     handler : HandlerOutcomes]

NoPPReq ==
    [scheme |-> "", rate_limited |-> FALSE, content |-> 0,
     unauthorized |-> FALSE, circuit_open |-> FALSE, ddos |-> 0,
     handler |-> Outcome("none", 0)]

PPResponse(status, headers, by, trail) ==
    [status |-> status, headers |-> headers, by |-> by, trail |-> trail]

NoPPResp == PPResponse(0, {}, "", <<>>)

\* the status with which a middleware answers the request itself, 0 when it
\* passes the request on
ShortCircuit(name, request) ==
    CASE name = "SimpleRateLimitMiddleware" ->
            IF request.rate_limited THEN 429 ELSE 0
      [] name = "ContentValidationMiddleware" -> request.content
      [] name = "JWTAuthenticationMiddleware" ->
            IF request.unauthorized THEN 401 ELSE 0
      [] name = "CircuitBreakerMiddleware" ->
            IF request.circuit_open THEN 503 ELSE 0
      [] name = "DDoSProtectionMiddleware" -> request.ddos
      [] OTHER -> 0

\* the headers of the response a middleware builds itself
OwnHeaders(name) ==
    CASE name = "SimpleRateLimitMiddleware" ->
            {"Retry-After", "X-RateLimit-Limit"}
      [] name = "JWTAuthenticationMiddleware" -> {"WWW-Authenticate"}
      [] name = "CircuitBreakerMiddleware" -> {"Retry-After"}
      [] OTHER -> {}

\* the headers a middleware sets on the response that call_next returned
AddedHeaders(name, request) ==
    CASE name = "SecurityHeadersMiddleware" ->
            SECURITY_HEADERS
            \cup (IF settings.is_production /\ request.scheme = "https"
                  THEN {"Strict-Transport-Security"} ELSE {})
      [] name = "SimpleRateLimitMiddleware" ->
            {"X-RateLimit-Limit", "X-RateLimit-Remaining"}
      [] name = "RequestIDMiddleware" -> {"X-Request-ID"}
      [] name = "RequestLoggingMiddleware" -> {"X-Process-Time"}
      [] OTHER -> {}

\* The request enters chain[i]: the middleware answers it itself, or awaits
\* the rest of the chain and sets its headers on the response.  When the
\* handler raises, the exception passes through every dispatch and the
\* server error middleware answers 500.
RECURSIVE Traverse(_, _, _, _)
Traverse(chain, i, request, trail) ==
    IF i > Len(chain)
    THEN IF request.handler.kind = "response"
         THEN PPResponse(request.handler.status, {}, "handler", trail)
         ELSE PPResponse(500, {}, "ServerErrorMiddleware", trail)
    ELSE LET name == chain[i]
             seen == Append(trail, name)
         IN  IF ShortCircuit(name, request) # 0
             THEN PPResponse(ShortCircuit(name, request), OwnHeaders(name),
                             name, seen)
             ELSE LET inner == Traverse(chain, i + 1, request, seen)
                  IN  IF inner.by = "ServerErrorMiddleware" THEN inner
                      ELSE [inner EXCEPT
                               !.headers = @ \cup AddedHeaders(name, request)]

\* one request at a time is followed through the chain
PPDispatch(request) ==
    /\ ppReq = NoPPReq
    /\ ppReq' = request
    /\ ppResp' = Traverse(user_middleware, 1, request, <<>>)
    /\ UNCHANGED <<now, rlVars, cbVars, alVars, ddVars, cvVars, phVars, rdVars,
                   jwVars, settings, user_middleware>>

\* the response has left the application
PPDone ==
    /\ ppReq # NoPPReq
    /\ ppReq' = NoPPReq
    /\ ppResp' = NoPPResp
    /\ UNCHANGED <<now, rlVars, cbVars, alVars, ddVars, cvVars, phVars, rdVars,
                   jwVars, settings, user_middleware>>

\* register_middlewares(app, settings)
PPInitWith(configs) ==
    /\ settings \in configs
    /\ user_middleware = add_middleware(Registered(settings))
    /\ ppReq = NoPPReq
    /\ ppResp = NoPPResp

PPNext ==
    \/ \E request \in PPRequests : PPDispatch(request)
    \/ PPDone

\* ------------------------------------------------------------------------
\* Specifications
\* ------------------------------------------------------------------------
\* the defaults of the constructors
RLDefault == [rpm |-> 60, burst |-> 10, rph |-> 1000]
CBDefault == [failure_threshold |-> 5, recovery_timeout |-> 60]
ALDefault ==
    [thresholds |-> [rate_limit |-> 100, auth_failures |-> 50,
                     large_payloads |-> 10],
     teams_webhook_url |-> FALSE, email_config |-> FALSE]

DDDefault ==
    [syn_threshold |-> 100, rate_threshold |-> 1000, ip_threshold |-> 500]

CVDefault ==
    [size_limits |-> <<>>, allowed_types |-> <<>>, block_null_bytes |-> TRUE]

\* the validators and later components at rest
RDDefault == [default_limit |-> 60, window_seconds |-> 60]

JWDefault ==
    [auth_required_paths |-> <<>>, public_paths |-> <<>>,
     JWT_AVAILABLE |-> TRUE]

TailInit ==
    /\ CVInitWith({CVDefault})
    /\ PHInitWith({{}})
    /\ RDInitWith({RDDefault})
    /\ JWInitWith({JWDefault})
    /\ PPInitWith({PPDefault})

\* the components that a specification leaves at rest
RestInit ==
    ALInitWith({ALDefault}, FALSE) /\ DDInitWith({DDDefault}) /\ TailInit

\* the rate limiter alone
InitRL ==
    now = 0 /\ RLInitWith(RLConfigs) /\ CBInitWith({CBDefault}) /\ RestInit
SpecRL == InitRL /\ [][RLNext]_vars

\* the circuit breaker alone
InitCB ==
    now = 0 /\ RLInitWith({RLDefault}) /\ CBInitWith(CBConfigs) /\ RestInit
SpecCB == InitCB /\ [][CBNext]_vars

\* the alerting middleware with its dispatcher alone
InitAL ==
    /\ now = Epoch
    /\ RLInitWith({RLDefault})
    /\ CBInitWith({CBDefault})
    /\ ALInitWith(ALConfigs, TRUE)
    /\ DDInitWith({DDDefault})
    /\ TailInit
SpecAL == InitAL /\ [][ALNext]_vars

\* the DDoS middleware alone
InitDD ==
    /\ now = 0
    /\ RLInitWith({RLDefault})
    /\ CBInitWith({CBDefault})
    /\ ALInitWith({ALDefault}, FALSE)
    /\ DDInitWith(DDConfigs)
    /\ TailInit
SpecDD == InitDD /\ [][DDNext]_vars

\* the components of the first specifications at rest
HeadInit ==
    /\ now = 0
    /\ RLInitWith({RLDefault})
    /\ CBInitWith({CBDefault})
    /\ ALInitWith({ALDefault}, FALSE)
    /\ DDInitWith({DDDefault})

\* the content validator alone
InitCV ==
    /\ HeadInit
    /\ CVInitWith(CVConfigs)
    /\ PHInitWith({{}})
    /\ RDInitWith({RDDefault})
    /\ JWInitWith({JWDefault})
    /\ PPInitWith({PPDefault})
SpecCV == InitCV /\ [][CVNext]_vars

\* the proxy headers middleware alone
InitPH ==
    /\ HeadInit
    /\ CVInitWith({CVDefault})
    /\ PHInitWith(PHConfigs)
    /\ RDInitWith({RDDefault})
    /\ JWInitWith({JWDefault})
    /\ PPInitWith({PPDefault})
SpecPH == InitPH /\ [][PHNext]_vars

\* the Redis rate limiter of several processes with their store
InitRD ==
    /\ HeadInit
    /\ CVInitWith({CVDefault})
    /\ PHInitWith({{}})
    /\ RDInitWith(RDConfigs)
    /\ JWInitWith({JWDefault})
    /\ PPInitWith({PPDefault})
SpecRD == InitRD /\ [][RDNext]_vars

\* the JWT middleware alone
InitJW ==
    /\ HeadInit
    /\ CVInitWith({CVDefault})
    /\ PHInitWith({{}})
    /\ RDInitWith({RDDefault})
    /\ JWInitWith(JWConfigs)
    /\ PPInitWith({PPDefault})
SpecJW == InitJW /\ [][JWNext]_vars

\* the chain built by register_middlewares
InitPP ==
    /\ HeadInit
    /\ CVInitWith({CVDefault})
    /\ PHInitWith({{}})
    /\ RDInitWith({RDDefault})
    /\ JWInitWith({JWDefault})
    /\ PPInitWith(PPSettings)
SpecPP == InitPP /\ [][PPNext]_vars

\* ------------------------------------------------------------------------
\* Properties of SimpleRateLimitMiddleware (checked under SpecRL)
\* ------------------------------------------------------------------------
\* number of entries of a list equal to v
Count(s, v) == Cardinality({i \in 1..Len(s) : s[i] = v})

\* the timestamps held by a window map
Stamps(w) == UNION {{w[c][i] : i \in 1..Len(w[c])} : c \in DOMAIN w}

\* a window map gained an entry v for client c in this step
Gained(w, w2, c, v) == Count(Get(w2, c), v) > Count(Get(w, c), v)

\* ceil of a duration in ticks, in seconds
CeilSec(ticks) == (ticks + TicksPerSec - 1) \div TicksPerSec

\* this step is the arrival of a request that is answered 429
RLDenial == nreq' = nreq + 1 /\ rlInflight' = rlInflight

\* the requests passed to the handler in this step, and those that returned
RLEntered == rlInflight' \ rlInflight
RLLeft == rlInflight \ rlInflight'

\* admitted requests of client c in the minute and in the hour before t
MinuteCount(c, t) == CountIn(admitted[c], t, MinuteTicks)
HourCount(c, t) == CountIn(admitted[c], t, HourTicks)

\* C1: for every client, the admitted requests in any interval (t-60, t]
\* number at most requests_per_minute + burst_size, and those in any interval
\* (t-3600, t] at most requests_per_hour.  (The count of an interval is
\* largest when t is the timestamp of an admitted request.)
C1_WindowNeverExceedsLimit ==
    \A c \in ClientIds : \A i \in 1..Len(admitted[c]) :
        /\ MinuteCount(c, admitted[c][i]) <= rpm + burst
        /\ HourCount(c, admitted[c][i]) <= rph

\* a client has used its whole minute allowance and was then answered 429
C1_Witness ==
    /\ rlResp.status = 429
    /\ MinuteCount(rlResp.client, now) = rpm + burst
    /\ rpm + burst < rph

C2_Step ==
    /\ RLDenial =>
          \A c \in ClientIds, v \in Stamps(minute_windows') \cup Stamps(hour_windows') :
              /\ ~Gained(minute_windows, minute_windows', c, v)
              /\ ~Gained(hour_windows, hour_windows', c, v)
    /\ \A r \in RLEntered : r.limited =>
          /\ Count(minute_windows'[r.client], now')
                = Count(Get(minute_windows, r.client), now') + 1
          /\ Count(hour_windows'[r.client], now')
                = Count(Get(hour_windows, r.client), now') + 1
          /\ \A c \in ClientIds, v \in Stamps(minute_windows') \cup Stamps(hour_windows') :
                (c # r.client \/ v # now') =>
                    /\ ~Gained(minute_windows, minute_windows', c, v)
                    /\ ~Gained(hour_windows, hour_windows', c, v)
    /\ \A c \in ClientIds, v \in Stamps(minute_windows') \cup Stamps(hour_windows') :
          Gained(minute_windows, minute_windows', c, v)
              <=> Gained(hour_windows, hour_windows', c, v)

\* C2: a denied request adds no timestamp to either window of any client; an
\* admitted request adds exactly one timestamp, its arrival time, to both
\* windows of its client; no step records a request in one window only.
C2_OnlyAdmittedRecorded == [][C2_Step]_vars

\* a request was denied while an earlier one of the same client is recorded
\* and still in flight
C2_Witness ==
    /\ rlResp.status = 429
    /\ \E r \in rlInflight :
          /\ r.limited /\ r.client = rlResp.client
          /\ Count(minute_windows[r.client], r.t) >= 1
          /\ Count(hour_windows[r.client], r.t) >= 1

C3_Step ==
    /\ RLDenial =>
          ~ /\ MinuteCount(rlResp'.client, now') < rpm + burst
            /\ HourCount(rlResp'.client, now') < rph
    /\ \A r \in RLEntered : r.limited =>
          /\ MinuteCount(r.client, now') < rpm + burst
          /\ HourCount(r.client, now') < rph

\* C3: a request is admitted exactly when fewer than requests_per_minute +
\* burst_size of its client's requests were admitted in the preceding 60
\* seconds and fewer than requests_per_hour in the preceding hour: burst
\* raises the minute limit only.
C3_BurstOnMinuteOnly == [][C3_Step]_vars

\* with a burst allowance, requests_per_minute + burst_size back-to-back
\* requests were admitted and the next one was denied
C3_Witness ==
    /\ burst > 0
    /\ rlResp.status = 429
    /\ Len(admitted[rlResp.client]) = rpm + burst
    /\ \A i \in 1..Len(admitted[rlResp.client]) : admitted[rlResp.client][i] = now

\* C4: with burst_size = 0 (and an hour limit of at least
\* requests_per_minute), for sequential requests of one client within one
\* minute: the k-th request is admitted and answered with
\* X-RateLimit-Remaining = requests_per_minute - k, for k up to
\* requests_per_minute, and the next one is answered 429 with Retry-After 60.
C4_RemainingCountsDown ==
    LET c == rlResp.client IN
    (/\ burst = 0 /\ rph >= rpm
     /\ rlResp.kind = "response"
     /\ ~(rlResp.path \in excluded_paths))
    => IF Len(admitted[c]) = 0 THEN rlResp.status # 429
       ELSE now - admitted[c][1] < MinuteTicks =>
            /\ (rlResp.status # 429 /\ rlResp.k = Len(admitted[c])) =>
                  /\ rlResp.k <= rpm
                  /\ rlResp.remaining = rpm - rlResp.k
            /\ rlResp.status = 429 =>
                  /\ Len(admitted[c]) = rpm
                  /\ rlResp.retry_after = 60

\* the request after the last admitted one was answered 429, within the minute
C4_Witness ==
    /\ burst = 0 /\ rpm = 2 /\ rph >= rpm
    /\ rlResp.status = 429 /\ rlResp.retry_after = 60
    /\ rlInflight = {}
    /\ Len(admitted[rlResp.client]) = rpm
    /\ now - admitted[rlResp.client][1] < MinuteTicks

\* C5: the retry-after of a denial is ceil(oldest + horizon - now) for the
\* oldest timestamp of a failing window, for the minute and for the hour.
C5_RetryAfterIsCeil ==
    [][RLDenial =>
        LET c == rlResp'.client
            mw == minute_windows'[c]
            hw == hour_windows'[c]
        IN  rlResp'.retry_after \in
              {CeilSec(MinOf(w.list) + w.horizon - now') :
                  w \in {x \in {[list |-> mw, horizon |-> MinuteTicks,
                                 limit |-> rpm + burst],
                                [list |-> hw, horizon |-> HourTicks,
                                 limit |-> rph]} :
                            Len(x.list) >= x.limit}}]_vars

\* C6: a request is admitted only if it passes both horizons, and a denial
\* at which both horizons fail carries the longest of their retry-afters.
C6_LongestRetryAfter ==
    [][/\ \A r \in RLEntered : r.limited =>
             /\ MinuteCount(r.client, now') < rpm + burst
             /\ HourCount(r.client, now') < rph
       /\ RLDenial =>
             LET c == rlResp'.client IN
             (/\ Len(minute_windows'[c]) >= rpm + burst
              /\ Len(hour_windows'[c]) >= rph)
             => rlResp'.retry_after =
                  Max(RETRY_MINUTE, HourRetryAfter(MinOf(hour_windows'[c]), now'))]_vars

C7_Step ==
    /\ \A r \in RLEntered : r.path \in excluded_paths =>
          UNCHANGED <<minute_windows, hour_windows>>
    /\ RLDenial => ~(rlResp'.path \in excluded_paths)
    /\ \A r \in RLLeft : r.path \in excluded_paths =>
          /\ UNCHANGED <<minute_windows, hour_windows>>
          /\ rlResp'.path = r.path /\ rlResp'.status # 429

\* C7: a request on an excluded path goes to the handler, is never answered
\* 429 and leaves both window maps unchanged.
C7_ExcludedBypass == [][C7_Step]_vars

\* a client that has used its whole allowance and was denied has a later
\* request on an excluded path in the handler
C7_Witness ==
    \E r \in rlInflight :
        /\ ~r.limited /\ r.path \in excluded_paths
        /\ rlResp.status = 429 /\ rlResp.client = r.client
        /\ MinuteCount(r.client, r.t) >= rpm + burst
        /\ \A i \in 1..Len(admitted[r.client]) : admitted[r.client][i] < r.t

\* ------------------------------------------------------------------------
\* Properties of CircuitBreakerMiddleware (checked under SpecCB)
\* ------------------------------------------------------------------------
\* this step is the arrival of a request for endpoint e
CBArrival(e) == cbReq' = cbReq + 1 /\ cbLast' = e

C8_Step ==
    \A e \in Endpoints :
        /\ failure_counts'[e] = consec'[e]
        /\ (states[e] = "closed" /\ states'[e] = "open") =>
              /\ consec[e] = failure_threshold - 1
              /\ consec'[e] = failure_threshold
        /\ (consec'[e] = consec[e] + 1 /\ consec'[e] >= failure_threshold) =>
              states'[e] = "open"
        /\ (states[e] # "open" /\ states'[e] = "open") =>
              consec'[e] >= failure_threshold

C9_Step ==
    \A e \in Endpoints :
        (/\ CBArrival(e)
         /\ states[e] = "open"
         /\ e \in DOMAIN last_failure_times
         /\ now - last_failure_times[e] < recovery_timeout * TicksPerSec)
        => /\ cbResp' = [kind |-> "response", status |-> 503,
                         retry_after |-> recovery_timeout, endpoint |-> e,
                         handler |-> FALSE]
           /\ cbInflight' = cbInflight
           /\ states'[e] = "open"

\* C9: a request for an endpoint whose circuit is open, arriving less than
\* recovery_timeout after the endpoint's last recorded failure, is answered
\* 503 with Retry-After = recovery_timeout and does not reach the handler.
C9_OpenRejects == [][C9_Step]_vars

\* a request was rejected by an open circuit some time after the failure
C9_Witness ==
    /\ cbResp.status = 503 /\ ~cbResp.handler
    /\ cbResp.retry_after = recovery_timeout
    /\ states[cbResp.endpoint] = "open"
    /\ now > last_failure_times[cbResp.endpoint]
    /\ now - last_failure_times[cbResp.endpoint] < recovery_timeout * TicksPerSec

\* C10: of the requests for an endpoint that arrive between the grant of the
\* half-open probe and the recording of its outcome, at most one (the probe)
\* reaches the handler.
C10_SingleProbe == \A e \in Endpoints : sinceProbe[e] <= 1

\* this step records the outcome of the request that moved e to half_open
ProbeOutcome(e) ==
    cbInflight'[<<e, "probe">>] = cbInflight[<<e, "probe">>] - 1

C11_Step ==
    \A e \in Endpoints :
        ProbeOutcome(e) =>
            /\ consec'[e] = 0 =>
                  failure_counts'[e] = 0 /\ states'[e] = "closed"
            /\ consec'[e] # 0 => states'[e] = "open"

\* C11: when the outcome of the half-open probe is a success, failure_count
\* becomes 0 and the circuit is closed; when it is a failure, the circuit is
\* open again at once.
C11_ProbeDecides == [][C11_Step]_vars

\* C12: every 503 that the middleware produces carries Retry-After (the
\* handlers of the model answer 200 or 500 only, so every 503 is its own).
C12_Every503HasRetryAfter ==
    cbResp.status = 503 => cbResp.retry_after >= 0

\* ------------------------------------------------------------------------
\* Properties of AlertingMiddleware and AlertDispatcher (checked under SpecAL)
\* ------------------------------------------------------------------------
\* this step is a call of _check_alert for event type e
ALCalled(e) == nal' = nal + 1 /\ alCall'.event_type = e

\* this step is a call of _check_alert for e that called dispatch
ALFired(e) == ALCalled(e) /\ alCall'.fired

\* the time read by _check_alert for the last alert of e
LastAlertOf(e) == IF e \in DOMAIN last_alert THEN last_alert[e] ELSE 0

C13_Step ==
    \A e \in EventTypes :
        ALFired(e) =>
            /\ last_sent[e] >= 0 => now - last_sent[e] >= CooldownTicks
            /\ counters'[e] = 0

\* C13: two alerts dispatched for one event type are at least alert_cooldown
\* apart, and the type's counter is 0 right after each dispatch.
C13_CooldownBetweenAlerts == [][C13_Step]_vars

C14_Step ==
    \A e \in EventTypes :
        ALCalled(e) =>
            /\ alCall'.fired <=>
                  /\ counters[e] + 1 >= Threshold(e)
                  /\ e \in DOMAIN last_alert =>
                        now - last_alert[e] >= CooldownTicks
            /\ alCall'.fired => alCall'.count = counters[e] + 1
            /\ ~alCall'.fired => counters'[e] = counters[e] + 1

\* C14: _check_alert adds one to the type's counter and dispatches exactly
\* when the counter is >= the type's threshold (100 without one) and the time
\* since the type's last alert is >= alert_cooldown; the payload's count is
\* the counter's value at that moment.
C14_FiresExactlyWhen == [][C14_Step]_vars

C15_Step ==
    \A e \in EventTypes :
        ALFired(e) =>
            /\ counters'[e] = 0
            /\ e \in DOMAIN last_alert'
            /\ last_alert'[e] = now

\* C15: whenever _check_alert calls dispatch, the counter is cleared and the
\* time recorded, also when dispatch raises.
C15_ResetEvenIfDispatchRaises == [][C15_Step]_vars

C16_Step ==
    \A e \in EventTypes :
        ALCalled(e) =>
            /\ \A u \in EventTypes \ {e} :
                  /\ counters'[u] = counters[u]
                  /\ u \in DOMAIN last_alert' <=> u \in DOMAIN last_alert
                  /\ u \in DOMAIN last_alert =>
                        last_alert'[u] = last_alert[u]
            /\ alCall'.fired <=>
                  /\ counters[e] + 1 >= Threshold(e)
                  /\ now - LastAlertOf(e) > CooldownTicks

\* C16: _check_alert for one event type leaves the counter and the
\* last-alert time of every other type as they were, and whether it
\* dispatches depends on its own type's counter, threshold and last alert
\* only.
C16_TypesIndependent == [][C16_Step]_vars

\* an alert went out for one type while another type was in its cooldown
C16_Witness ==
    /\ alCall.fired
    /\ \E u \in EventTypes \ {alCall.event_type} :
          /\ u \in DOMAIN last_alert
          /\ now - last_alert[u] < CooldownTicks

C17_Step ==
    \A e \in EventTypes :
        ALFired(e) =>
            /\ ~alCall'.raised
            /\ email_config =>
                  \/ "email" \in alCall'.ran
                  \/ executor'["email"] = executor["email"] + 1

\* C17: dispatch never raises to its caller, and the email sink is attempted
\* whatever the Teams sink does, with or without a running event loop.
C17_DispatchNeverRaises == [][C17_Step]_vars

C18_StepAnyCaller ==
    \A e \in EventTypes : ALFired(e) => alCall'.ran = {}

C18_Step ==
    \A e \in EventTypes :
        (ALFired(e) /\ alResp'.kind # "none") =>
            /\ alCall'.ran = {}
            /\ alResp'.kind = "response"
            /\ teams_webhook_url =>
                  executor'["teams"] = executor["teams"] + 1
            /\ email_config =>
                  executor'["email"] = executor["email"] + 1

DDArrival(c) == ddReq' = ddReq + 1 /\ ddLast' = c

C19_Step ==
    \A c \in DDClients :
        /\ (DDArrival(c) /\ c \in blocked_ips) =>
              /\ ddResp' = [kind |-> "response", status |-> 403,
                            client |-> c, handler |-> FALSE]
              /\ ddInflight' = ddInflight
              /\ c \in blocked_ips'
        /\ (c \in blocked_ips /\ c \notin blocked_ips') => ddWake' # ddWake

\* C19: a request of a client that is in the blocked set is rejected (403)
\* without reaching the handler, and a client leaves the blocked set only in
\* a round of the cleanup loop.
C19_BlockedStaysRejected == [][C19_Step]_vars

\* a request of a client blocked earlier was turned away
C19_Witness ==
    /\ ddResp.status = 403
    /\ ~ddResp.handler
    /\ ddResp.client \in blocked_ips

\* C20: connection_counts[client] is never negative and equals the number
\* of the client's requests in flight, every increment being undone on every
\* exit path, the 429 of a detected attack included.
C20_CountIsInflight ==
    \A c \in DDClients :
        connection_counts[c] >= 0 /\ connection_counts[c] = ddInflight[c]

\* this step is a round of the cleanup loop
DDCleaned == ddWake' # ddWake

C21_Step ==
    DDCleaned =>
        \A c \in blocked_ips :
            /\ ddInflight[c] = 0 => c \notin blocked_ips'
            /\ ddInflight[c] > 0 => c \in blocked_ips'

\* C21: a round of the cleanup loop unblocks every blocked client that has
\* no request in flight and keeps every blocked client that has one.
C21_CleanupUnblocksIdle == [][C21_Step]_vars

\* number of requests of client c, this step's included, that arrived less
\* than a minute before now
RecentRequests(c) ==
    Cardinality({i \in 1..Len(ddSeen'[c]) : now - ddSeen'[c][i] < DDWindowTicks})

\* the request arriving in this step finds client c over a threshold
DDOverThreshold(c) ==
    \/ ddInflight[c] + 1 > syn_threshold
    \/ RecentRequests(c) > rate_threshold

C22_Step ==
    \A c \in DDClients :
        /\ (c \notin blocked_ips /\ c \in blocked_ips') =>
              DDArrival(c) /\ DDOverThreshold(c)
        /\ (DDArrival(c) /\ c \notin blocked_ips /\ ~DDOverThreshold(c)) =>
              /\ c \notin blocked_ips'
              /\ ddInflight'[c] = ddInflight[c] + 1
              /\ ddResp' = ddResp

\* C22: a client enters the blocked set only at one of its own requests that
\* finds more than syn_flood_threshold live connections or more than
\* request_rate_threshold requests within the last minute; a request of an
\* unblocked client under both thresholds goes to the handler, whatever the
\* number of unique IPs.
C22_BlockedOnlyOverThreshold == [][C22_Step]_vars

\* with more unique IPs than unique_ip_threshold and another client blocked,
\* a client under both thresholds has its request at the handler
C22_Witness ==
    /\ Cardinality(unique_ips) > ip_threshold
    /\ blocked_ips # {}
    /\ ddLast \in DDClients \ blocked_ips
    /\ ddInflight[ddLast] > 0
    /\ ddSeen[ddLast][Len(ddSeen[ddLast])] = now

\* ------------------------------------------------------------------------
\* Properties of ContentValidationMiddleware (checked under SpecCV)
\* ------------------------------------------------------------------------
\* a request has been answered
CVAnswered == cvReq # NoCVReq

\* C23: a request whose method is not GET, HEAD or OPTIONS and whose
\* Content-Length is greater than the limit found for its path is answered 413
\* with max_size equal to that limit, without the handler; a Content-Length
\* that is at most the limit is never answered 413; a request with a bodyless
\* method is never answered 413.
C23_SizeLimit ==
    CVAnswered =>
        LET size == int(cvReq.content_length)
            limit == _get_size_limit(cvReq.path)
            declared == cvReq.content_length # <<>>
        IN  /\ (cvReq.method \notin BODYLESS_METHODS /\ declared /\ size > limit)
                => cvResp = Rejected(413, limit)
            /\ (declared /\ size <= limit) => cvResp.status # 413
            /\ cvReq.method \in BODYLESS_METHODS => cvResp.status # 413

\* the test of the repository: the table {"/api/": 100}, a POST of 250 bytes
\* to a path under /api/ answered 413 with max_size 100
C23_Witness ==
    /\ cvReq.method = "POST"
    /\ size_limits = << Entry(<<"/", "api", "/">>, 100) >>
    /\ cvReq.content_length = <<2, 5, 0>>
    /\ cvResp = Rejected(413, 100)

\* the longest pattern of a table that a path starts with
LongestPrefix(table, path) ==
    LET hits == {i \in 1..Len(table) : StartsWith(path, table[i].pattern)}
    IN  IF hits = {} THEN 0
        ELSE CHOOSE i \in hits :
                 \A j \in hits : Len(table[j].pattern) <= Len(table[i].pattern)

\* C24: for every path the limit applied is the limit of the longest pattern
\* of the table that the path starts with, whatever the order of the table's
\* entries, and the default limit when no pattern matches.
C24_LongestPrefixLimit ==
    \A path \in CVPaths :
        _get_size_limit(path) =
            IF LongestPrefix(size_limits, path) = 0 THEN FALLBACK_LIMIT
            ELSE size_limits[LongestPrefix(size_limits, path)].limit

\* C25: a request that the validator checks is answered by the first failing
\* check in the order size (413), content type (415), NUL byte (400), and is
\* passed to the handler when no check fails.
C25_FirstFailingCheck ==
    (CVAnswered /\ cvReq.method \notin BODYLESS_METHODS) =>
        /\ SizeFails(cvReq) => cvResp.status = 413
        /\ (~SizeFails(cvReq) /\ TypeFails(cvReq)) => cvResp.status = 415
        /\ (~SizeFails(cvReq) /\ ~TypeFails(cvReq) /\ NulFails(cvReq))
            => cvResp.status = 400
        /\ (~SizeFails(cvReq) /\ ~TypeFails(cvReq) /\ ~NulFails(cvReq))
            => cvResp = CallNext
        /\ cvResp.status \in {413, 415, 400} => ~cvResp.handler

\* a request failing the three checks at once is answered 413
C25_Witness ==
    /\ CVAnswered
    /\ SizeFails(cvReq) /\ TypeFails(cvReq) /\ NulFails(cvReq)
    /\ cvResp.status = 413

\* ------------------------------------------------------------------------
\* Properties of ProxyHeadersMiddleware (checked under SpecPH)
\* ------------------------------------------------------------------------
\* the peer address of the connection is not in trusted_proxies
Untrusted(request) ==
    request.client = NoClient \/ request.client[1] \notin trusted_proxies

\* the requests came over the same connection and differ at most in the
\* forwarded headers
SamePeer(r1, r2) == r1.client = r2.client

\* C26: for a request whose peer address is not in trusted_proxies the client
\* address, the scheme and the host handed to the rest of the chain are those
\* of the connection, whatever the forwarded headers hold; two such requests
\* that differ only in these headers resolve to the same client address.
C26_UntrustedHeadersIgnored ==
    /\ (phReq # NoPHReq /\ Untrusted(phReq)) => phScope = ScopeIn(phReq)
    /\ ( /\ phReq # NoPHReq /\ phPrev.request # NoPHReq
         /\ Untrusted(phReq) /\ Untrusted(phPrev.request)
         /\ SamePeer(phReq, phPrev.request) )
       => phScope.client = phPrev.scope.client

\* two requests of an untrusted peer, one with every forwarded header set and
\* one with none, resolved to the peer's address
C26_Witness ==
    /\ phReq.client = <<"203.0.113.9", 40000>>
    /\ phPrev.request.client = phReq.client
    /\ phReq.forwarded_for # <<>> /\ phReq.real_ip # ""
    /\ phReq.forwarded_proto # "" /\ phReq.forwarded_host # ""
    /\ phPrev.request # NoPHReq
    /\ phPrev.request.forwarded_for = <<>> /\ phPrev.request.real_ip = ""
    /\ phScope.client = phReq.client
    /\ phPrev.scope.client = phReq.client

\* ------------------------------------------------------------------------
\* Properties of RedisRateLimitMiddleware (checked under SpecRD)
\* ------------------------------------------------------------------------
\* this step is the one in which the response to a request leaves dispatch
RDAnswered ==
    \E id \in 1..MaxRDInflight :
        rdInflight[id] # NoRDReq /\ rdInflight'[id] = NoRDReq

\* C27 as stated: a request whose rate-limit check met a RedisError, from
\* loading or from executing the script, is passed to the handler and is
\* answered by the handler, never by a 429.
C27_StepAnyRedisError ==
    (RDAnswered /\ (rdResp'.failed \/ rdResp'.noscript))
        => (rdResp'.calls >= 1 /\ rdResp'.status # 429)

C27_Step ==
    (RDAnswered /\ rdResp'.failed)
        => (rdResp'.calls = 1 /\ rdResp'.status # 429)

KeyLimit(key) ==
    _get_limit(CHOOSE r \in RDRequests : KeyOf(r) = key)

\* number of requests with a timestamp in (t - window, t] that the script
\* allowed for a key
RECURSIVE AdmittedIn(_, _, _)
AdmittedIn(key, t, width) ==
    IF width = 0 \/ t < 0 THEN 0
    ELSE rdAdmitted[key][t] + AdmittedIn(key, t - 1, width - 1)

\* C28: for every key and every window of window_seconds, the number of
\* requests with a timestamp in the window that the script allowed is at
\* most the limit of the key, whatever the interleaving of the processes.
C28_AdmittedWithinLimit ==
    \A key \in RDKeys, t \in 0..MaxRDNow :
        AdmittedIn(key, t, window) <= KeyLimit(key)

\* ------------------------------------------------------------------------
\* Properties of JWTAuthenticationMiddleware (checked under SpecJW)
\* ------------------------------------------------------------------------
\* the path starts with no public prefix and with some auth-required prefix
RequiresAuth(path) ==
    /\ \A i \in 1..Len(public_paths) : ~StartsWith(path, public_paths[i])
    /\ \E i \in 1..Len(auth_required_paths) :
           StartsWith(path, auth_required_paths[i])

\* the tokens that a request presents
Presented(request) ==
    ({request.cookie, request.token_param}
        \cup (IF request.authorization = <<>> THEN {}
              ELSE {request.authorization[2]}))
    \ {NoToken}

\* the token is signed with the key and has not expired
ValidToken(token) ==
    token.sig_ok /\ (token.exp = NoExp \/ token.exp > 0)

\* C29: on a path that starts with no public prefix and with some
\* auth-required prefix the handler is invoked only for a request that
\* presented a valid token, and any other request is answered 401 with
\* WWW-Authenticate: Bearer; on every other path the request is passed to the
\* handler, as anonymous when its token is expired or invalid.
C29_AuthRequiredNeedsValidToken ==
    jwReq # NoJWReq =>
        IF RequiresAuth(jwReq.path)
        THEN /\ jwResp.handler =>
                    /\ \E t \in Presented(jwReq) : ValidToken(t)
                    /\ jwResp.state.is_authenticated
             /\ ~jwResp.handler =>
                    (jwResp.status = 401 /\ jwResp.www_authenticate = "Bearer")
        ELSE /\ jwResp.handler
             /\ ~ValidToken(_extract_token(jwReq)) => jwResp.state = Anonymous

\* an expired token on a path under an auth-required prefix is answered 401
C29_Witness ==
    /\ jwReq # NoJWReq
    /\ RequiresAuth(jwReq.path)
    /\ JWT_AVAILABLE
    /\ _extract_token(jwReq) = JWToken(TRUE, -1, "u1")
    /\ jwResp = Unauthorized

\* ------------------------------------------------------------------------
\* Properties of the chain built by register_middlewares (checked under
\* SpecPP)
\* ------------------------------------------------------------------------
\* position of a middleware in the chain, the outermost being 1
IndexOf(name) ==
    CHOOSE i \in 1..Len(user_middleware) : user_middleware[i] = name

Enabled(name) == \E i \in 1..Len(user_middleware) : user_middleware[i] = name

\* the middleware that can answer a request themselves
Interceptors ==
    {"SimpleRateLimitMiddleware", "ContentValidationMiddleware",
     "JWTAuthenticationMiddleware"}

\* C30: SecurityHeadersMiddleware is outside the rate limiter, the content
\* validator and the authenticator, and every response that leaves the chain,
\* rejections 429, 413, 415, 400 and 401 included, carries the fixed security
\* headers.
C30_SecurityHeadersOnEveryResponse ==
    /\ \A name \in Interceptors :
           Enabled(name) => IndexOf("SecurityHeadersMiddleware") < IndexOf(name)
    /\ ppReq # NoPPReq => SECURITY_HEADERS \subseteq ppResp.headers

\* C31: a request is examined by the rate limiter before the content
\* validator, and by the content validator before the proxy resolver and the
\* authenticator; the response passes them in the reverse order (so the trail
\* of a request that reached them lists them in that order), and a request
\* that is over the rate limit and declares an oversized payload is answered
\* 429, not 413.
C31_RateLimitBeforeContentValidation ==
    /\ Enabled("SimpleRateLimitMiddleware") =>
           IndexOf("SimpleRateLimitMiddleware")
               < IndexOf("ContentValidationMiddleware")
    /\ \A name \in {"ProxyHeadersMiddleware", "JWTAuthenticationMiddleware"} :
           Enabled(name) =>
               IndexOf("ContentValidationMiddleware") < IndexOf(name)
    /\ (/\ ppReq # NoPPReq
        /\ Enabled("SimpleRateLimitMiddleware")
        /\ ppReq.rate_limited
        /\ ppReq.content = 413
        /\ ppReq.ddos = 0
        /\ ~ppReq.circuit_open
        /\ ~ppReq.unauthorized) => ppResp.status = 429

\* ------------------------------------------------------------------------
\* Further properties of SimpleRateLimitMiddleware (checked under SpecRL)
\* ------------------------------------------------------------------------
\* number of occurrences of v in the list s
Occurrences(s, v) == Cardinality({i \in 1..Len(s) : s[i] = v})

\* what _cleanup_old_entries leaves of one window map: no key with an empty
\* list, only timestamps after the cutoff, and every timestamp after the
\* cutoff that the map held
CleanedPost(before, after, cutoff) ==
    /\ DOMAIN after \subseteq DOMAIN before
    /\ \A c \in DOMAIN after :
          /\ after[c] # <<>>
          /\ \A i \in 1..Len(after[c]) : after[c][i] > cutoff
    /\ \A c \in DOMAIN before :
          \A i \in 1..Len(before[c]) :
              before[c][i] > cutoff =>
                  Occurrences(Get(after, c), before[c][i])
                      = Occurrences(before[c], before[c][i])

\* the clients with an admitted request in the hour that ends at t
ActiveClients(t) ==
    {c \in ClientIds :
        \E i \in 1..Len(admitted[c]) : admitted[c][i] > t - HourTicks}

\* a step in which dispatch ran _cleanup_old_entries(now'): the maps it left,
\* before _check_rate_limit touched the entry of the requesting client
C32_Step ==
    _last_cleanup' # _last_cleanup =>
        LET mw == CleanWindows(minute_windows, now' - MinuteTicks)
            hw == CleanWindows(hour_windows, now' - HourTicks)
        IN  /\ CleanedPost(minute_windows, mw, now' - MinuteTicks)
            /\ CleanedPost(hour_windows, hw, now' - HourTicks)
            /\ Cardinality(DOMAIN mw) <= Cardinality(ActiveClients(now'))
            /\ Cardinality(DOMAIN hw) <= Cardinality(ActiveClients(now'))
            /\ \A c \in DOMAIN minute_windows' \cup DOMAIN mw :
                   c # rlResp'.client /\ (\A r \in rlInflight' \ rlInflight :
                                             c # r.client)
                   => c \in DOMAIN mw /\ c \in DOMAIN minute_windows'
                      /\ minute_windows'[c] = mw[c]

\* C32: after _cleanup_old_entries(now) neither window map has a key with an
\* empty list, every remaining timestamp is within its horizon, no timestamp
\* within its horizon was removed, and the number of keys is at most the
\* number of clients with an admitted request in the last hour.
C32_CleanupLeavesActiveClients == [][C32_Step]_vars

\* the cleanup has just run and deleted the minute window of a client whose
\* last admitted request is older than a minute, keeping its hour window
C32_Witness ==
    /\ _last_cleanup = now /\ now > 0
    /\ \E c \in ClientIds :
          /\ admitted[c] # <<>>
          /\ c \notin DOMAIN minute_windows
          /\ c \in DOMAIN hour_windows /\ hour_windows[c] # <<>>

\* the window w of client c records exactly the admitted requests of c that
\* are not older than the horizon, each once and in the order of arrival: it
\* is the tail of the client's admitted requests, and what is missing from it
\* is older than the horizon
RecordsAdmitted(w, c, horizon) ==
    LET a == admitted[c]
        l == Get(w, c)
        dropped == Len(a) - Len(l)
    IN  /\ dropped >= 0
        /\ l = SubSeq(a, dropped + 1, Len(a))
        /\ \A i \in 1..dropped : a[i] <= now - horizon

\* C33: with requests of one client interleaving at the await of call_next,
\* and the cleanup running in between, every admitted request is recorded
\* exactly once and no denied request is recorded, so that no increment is
\* lost and neither window holds more than its limit within its horizon.
C33_NoLostIncrement ==
    \A c \in ClientIds :
        /\ RecordsAdmitted(minute_windows, c, MinuteTicks)
        /\ RecordsAdmitted(hour_windows, c, HourTicks)
        /\ CountIn(Get(minute_windows, c), now, MinuteTicks) <= rpm + burst
        /\ CountIn(Get(hour_windows, c), now, HourTicks) <= rph

\* two requests of one client are awaiting the handler, the cleanup ran after
\* the first of them was admitted, and a third request of the client was
\* denied meanwhile
C33_Witness ==
    \E r1 \in rlInflight, r2 \in rlInflight :
        /\ r1 # r2 /\ r1.limited /\ r2.limited
        /\ r1.client = r2.client
        /\ r1.t < _last_cleanup
        /\ rlResp.status = 429 /\ rlResp.client = r1.client

\* ------------------------------------------------------------------------
\* Further properties of CircuitBreakerMiddleware (checked under SpecCB)
\* ------------------------------------------------------------------------
C34_Step ==
    \A e \in Endpoints :
        /\ states'[e] \in {"open", "half_open"} =>
               failure_counts'[e] >= failure_threshold
        /\ (states[e] = "half_open"
            /\ failure_counts'[e] = failure_counts[e] + 1) =>
               states'[e] = "open"

\* C34: an endpoint whose circuit is open or half_open has failure_count >=
\* failure_threshold, also after requests admitted before the circuit opened
\* have completed, so that one failure recorded in half_open re-opens the
\* circuit.
C34_OpenKeepsFailureCount == [][C34_Step]_vars

\* ------------------------------------------------------------------------
\* Client keys and forwarded headers (checked under SpecDD)
\* ------------------------------------------------------------------------
\* neither middleware is given a list of trusted proxies: the peers of the
\* requests are untrusted unless they are among the default trusted proxies
UntrustedPeer(peer) == peer # "" /\ peer \notin DEFAULT_TRUSTED

\* C35: the key under which SimpleRateLimitMiddleware counts a request and
\* the key under which DDoSProtectionMiddleware tracks and blocks it do not
\* depend on the X-Forwarded-For / X-Real-IP headers of a request from an
\* untrusted peer: two requests of one peer that differ only in these headers
\* have the same key, and a block entry made for a peer's request covers its
\* other requests.
C35_KeysIgnoreForwardedHeaders ==
    /\ \A r1 \in RLRequests, r2 \in RLRequests :
          (/\ UntrustedPeer(r1.peer) /\ r1.peer = r2.peer
           /\ r1.user_id = r2.user_id /\ r1.path = r2.path)
          => _get_client_identifier(r1) = _get_client_identifier(r2)
    /\ \A r1 \in DDRequests, r2 \in DDRequests :
          (UntrustedPeer(r1.peer) /\ r1.peer = r2.peer)
          => /\ _get_client_ip(r1) = _get_client_ip(r2)
             /\ IsBlocked(_get_client_ip(r1)) <=> IsBlocked(_get_client_ip(r2))

\* ------------------------------------------------------------------------
\* Further properties of RedisRateLimitMiddleware (checked under SpecRD)
\* ------------------------------------------------------------------------
\* number of times dispatch has awaited call_next for the request in slot id,
\* the call it is awaiting now included
HandlerCalls(id) ==
    rdInflight[id].calls
        + (IF rdInflight[id].pc \in {"handler", "failopen"} THEN 1 ELSE 0)

\* C36: dispatch invokes the downstream handler at most once per request on
\* every path, also when the handler raises a RedisError after the check has
\* allowed the request.
C36_HandlerInvokedAtMostOnce ==
    /\ rdResp.calls <= 1
    /\ \A id \in 1..MaxRDInflight : HandlerCalls(id) <= 1

\* ------------------------------------------------------------------------
\* Further properties of AlertingMiddleware (checked under SpecAL)
\* ------------------------------------------------------------------------
\* this step is a call of _check_alert for event type e
ALCounted(e) == nal' = nal + 1 /\ alCall'.event_type = e

C37_Step ==
    \A e \in EventTypes :
        ALCounted(e) =>
            /\ ~alCall'.fired => counters'[e] = counters[e] + 1
            /\ alCall'.fired => alCall'.count = sinceAlert[e] + 1

\* C37: while the cooldown suppresses alerts the counter of an event type
\* keeps accumulating (a suppressed threshold crossing does not reset it),
\* and the count carried by the next alert is the number of events of the
\* type observed since the previous alert.
C37_CountSincePreviousAlert == [][C37_Step]_vars

\* ------------------------------------------------------------------------
\* Retry-after of SimpleRateLimitMiddleware (checked under SpecRL)
\* ------------------------------------------------------------------------
\* C38: the retry-after of a denial is sufficient: when a client was denied
\* at time t with retry-after r and none of its requests was admitted since,
\* its request at time t + r is admitted.
C38_RetryAfterSufficient ==
    [][~(/\ lastDenial # NoDenial
         /\ now' = RetryTime
         /\ RLDenial
         /\ rlResp'.client = lastDenial.client)]_vars

====
